---- MODULE Spec2Model ----
(***************************************************************************)
(* QR Art Studio: the QR rendering engine (drawCustomQr and its helpers)   *)
(* and the batch generator (handleGenerate) of                             *)
(* src/src/components/qr-art-studio.tsx.                                   *)
(*                                                                         *)
(* Four specifications share the variables of this module:                 *)
(*   SpecFinder  the pure classifier isFinderPattern;                      *)
(*   SpecRender  one run of drawCustomQr on its own canvas;                *)
(*   SpecGen     handleGenerate over a list of designs, and the edits;     *)
(*   SpecInject  the injection of a raster and a text into an SVG template.*)
(***************************************************************************)
EXTENDS Integers, Sequences, FiniteSets, TLC

\* ------------------------------------------------------------------------
\* Bounds of the model
\* ------------------------------------------------------------------------

\* QR versions probed by the classifier specification (side = 17 + 4*version)
MaxVersion == 2

\* QR versions rendered by the drawCustomQr specification
MaxRenderVersion == 1

\* number of dark/light data patterns the encoder may hand to the renderer
MaxPattern == 1

\* largest number of designs in a batch
MaxDesigns == 2

\* number of times the Generate button is pressed
MaxRuns == 2

\* number of edits of the content and of the designs
MaxEdits == 2

\* largest number of elements in an SVG template
MaxElems == 2

\* number of times the props of a DesignPreview change after it is mounted
MaxPropChanges == 3

\* ------------------------------------------------------------------------
\* Program constants
\* ------------------------------------------------------------------------

QR_IMG_SIZE == 512

\* side of a finder pattern, in modules (the literal 7 of isFinderPattern and drawEye)
EyeModules == 7

\* side of the pupil, in modules (pupilSize = moduleSize * 3)
PupilModules == 3

\* JavaScript's undefined (an optional Design field that is absent) and null
Undefined == "undefined"

Null == "null"

\* JavaScript truthiness.  A string-valued field or argument is a string,
\* Undefined or Null; an optional boolean is TRUE or FALSE (absent behaves as
\* FALSE in every test the code makes); an optional number is a number (absent
\* behaves as 0 in every "x || default" the code makes).
TruthyStr(s) == s \notin {Undefined, Null, ""}

TruthyNum(k) == k # 0

\* side of the matrix of a QR version
SideOf(version) == 17 + 4 * version

\* ------------------------------------------------------------------------
\* isFinderPattern
\* ------------------------------------------------------------------------

\* (mutation of isFinderPattern: a fourth eye in the bottom-right corner)
isFinderPattern_FourEyes(x, y, moduleCount) ==
    IF x < 7 /\ y < 7 THEN TRUE
    ELSE IF x >= moduleCount - 7 /\ y < 7 THEN TRUE
    ELSE IF x < 7 /\ y >= moduleCount - 7 THEN TRUE
    ELSE IF x >= moduleCount - 7 /\ y >= moduleCount - 7 THEN TRUE
    ELSE FALSE

\* (mutation of isFinderPattern: off-by-one in the right-hand boundary)
isFinderPattern_OffByOne(x, y, moduleCount) ==
    IF x < 7 /\ y < 7 THEN TRUE
    ELSE IF x > moduleCount - 7 /\ y < 7 THEN TRUE
    ELSE IF x < 7 /\ y >= moduleCount - 7 THEN TRUE
    ELSE FALSE

isFinderPattern(x, y, moduleCount) ==
    IF x < 7 /\ y < 7 THEN TRUE
    ELSE IF x >= moduleCount - 7 /\ y < 7 THEN TRUE
    ELSE IF x < 7 /\ y >= moduleCount - 7 THEN TRUE
    ELSE FALSE

\* ------------------------------------------------------------------------
\* State
\* ------------------------------------------------------------------------

VARIABLES
    \* SpecFinder: one call of isFinderPattern
    probe,          \* the arguments [x, y, moduleCount] (moduleCount = 0: no call)
    probeResult,    \* <<>> before the call, then <<the value returned>>
    eyeSet,         \* the coordinates classified as finder pattern so far
    \* SpecRender: one call of drawCustomQr(qrData, design, bgImage, size)
    design,         \* the Design argument
    bgImage,        \* Null or the background image's data URL
    qrData,         \* Null or [size, pattern]: the encoder's matrix
    size,           \* canvasSize
    rpc,            \* position of the call
    canvas,         \* the canvas: cell -> set of paints that may be visible in it
    ops,            \* the canvas operations issued so far, in order
    pixelFillStyle, \* the paint resolved for data modules, Null before it is
    dataUrl,        \* what the promise settled with, Null before it does
    ctx,            \* the drawing state of the 2D context
    shapes,         \* the shapes filled by the then-callback, in order
    \* SpecGen: the component's state and one run of handleGenerate
    content,        \* useState: the text to encode
    designs,        \* useState: the list of designs
    generatedQrs,   \* useState: the result set shown in the preview
    isLoading,      \* useState: the loading flag
    toasts,         \* the toasts shown so far, in order
    gen,            \* the run of handleGenerate: its position and its locals
    edits,          \* the number of edits of the content and of the designs so far
    svgTemplates,   \* useState: the templates the template select offers
    requests,       \* the requests in flight, with isUploading, isSaving and templateFile
    \* SpecInject: the injection of one raster into one template
    inj,            \* the template, the design's text fields and svgText after each replace
    \* SpecPreview: one DesignPreview component
    pv,             \* its props, its state and the effects it has run
    \* SpecDownload: one call of handleDownloadAll
    dl              \* the lists its closure holds, its position and the archive

finderVars == <<probe, probeResult, eyeSet>>

renderVars == <<design, bgImage, qrData, size, rpc, canvas, ops, pixelFillStyle, dataUrl,
                ctx, shapes>>

genVars == <<content, designs, generatedQrs, isLoading, toasts, gen, edits,
             svgTemplates, requests>>

injectVars == <<inj>>

previewVars == <<pv>>

downloadVars == <<dl>>

vars == <<finderVars, renderVars, genVars, injectVars, previewVars, downloadVars>>

\* ------------------------------------------------------------------------
\* The encoder's matrix (QRCode.create, an external collaborator)
\* ------------------------------------------------------------------------

\* the dark/light layout of a real finder pattern at block coordinates (i, j)
FinderDark(i, j) ==
    \/ i \in {0, 6} \/ j \in {0, 6}
    \/ (i \in 2..4 /\ j \in 2..4)

\* the module at (x, y) of the matrix of side n with data pattern p: real finder
\* patterns in three corners; the fourth corner and the body carry data
ModuleAt(n, p, x, y) ==
    LET \* the light separator strips that border the three finder patterns
        IsSeparator ==
            \/ (x = 7 /\ (y < 8 \/ y >= n - 8))
            \/ (y = 7 /\ (x < 8 \/ x >= n - 8))
            \/ (x = n - 8 /\ y < 8)
            \/ (y = n - 8 /\ x < 8)
    IN
    IF x < 7 /\ y < 7 THEN FinderDark(x, y)
    ELSE IF x >= n - 7 /\ y < 7 THEN FinderDark(x - (n - 7), y)
    ELSE IF x < 7 /\ y >= n - 7 THEN FinderDark(x, y - (n - 7))
    ELSE IF IsSeparator THEN FALSE
    ELSE IF p = 1 THEN (x + y) % 2 = 0
    ELSE IF p = 2 THEN (x * y) % 3 = 0
    ELSE (x + 2 * y) % (p + 1) = 0

\* ------------------------------------------------------------------------
\* The canvas
\*
\* The canvas is divided into cells: one per module of the padded QR region
\* (columns and rows 1..moduleCount) and, when padding > 0, a surrounding band
\* of quiet-zone cells (column and row 0 and moduleCount + 1).  Lengths are
\* kept exact by measuring in units of 1/(2*moduleCount) pixel, so that
\* moduleSize = qrRegionSize / moduleCount and every half module are integers.
\* A cell holds the set of paints that may be visible in it: an operation that
\* covers the whole cell replaces the set, one that covers part of it adds to
\* the set.  "clear" is a pixel of alpha zero.
\* ------------------------------------------------------------------------

Clear == "clear"

\* const padding = design.padding || 0
PaddingOf(d) == IF TruthyNum(d.padding) THEN d.padding ELSE 0

\* canvasSize, padding and moduleSize in model units
Canvas2(n, sz) == 2 * n * sz

Pad2(n, pad) == 2 * n * pad

\* qrRegionSize = canvasSize - padding * 2; moduleSize = qrRegionSize / moduleCount
Module2(sz, pad) == 2 * (sz - pad * 2)

CellIdx(n, pad) == IF pad > 0 THEN 0..(n + 1) ELSE 1..n

\* the cells of the padded QR region
RegionCells(n) == (1..n) \X (1..n)

\* the extent [CellLo, CellHi] of column (or row) c
CellLo(n, sz, pad, c) ==
    IF c = 0 THEN 0
    ELSE Pad2(n, pad) + (c - 1) * Module2(sz, pad)

CellHi(n, sz, pad, c) ==
    IF c = 0 THEN Pad2(n, pad)
    ELSE IF c = n + 1 THEN Canvas2(n, sz)
    ELSE Pad2(n, pad) + c * Module2(sz, pad)

Min(a, b) == IF a <= b THEN a ELSE b

Sq(a) == a * a

\* distance from coordinate c to the interval [lo, hi], and to its far end
NearGap(lo, hi, c) == IF c < lo THEN lo - c ELSE IF c > hi THEN c - hi ELSE 0

FarGap(lo, hi, c) == IF c - lo >= hi - c THEN c - lo ELSE hi - c

\* how the disc of centre (cx, cy) and radius r covers the rectangle
\* [x0, x1] x [y0, y1]: all of it, none of it, or part of it
DiscCover(cx, cy, r, x0, x1, y0, y1) ==
    IF Sq(FarGap(x0, x1, cx)) + Sq(FarGap(y0, y1, cy)) <= Sq(r) THEN "full"
    ELSE IF Sq(NearGap(x0, x1, cx)) + Sq(NearGap(y0, y1, cy)) >= Sq(r) THEN "none"
    ELSE "partial"

\* how roundRect(0, 0, k*u, k*u, [r]) covers its cell (i, j), i, j in 0..k-1,
\* each cell u units wide; the canvas scales a radius that does not fit down
\* to half the side
RoundRectCover(k, u, r, i, j) ==
    LET rr == Min(r, (k * u) \div 2)
        a  == u * Min(i, k - 1 - i)
        b  == u * Min(j, k - 1 - j)
    IN  IF a >= rr \/ b >= rr THEN "full"
        ELSE IF Sq(rr - a) + Sq(rr - b) <= Sq(rr) THEN "full"
        ELSE IF a + u <= rr /\ b + u <= rr
                /\ Sq(rr - a - u) + Sq(rr - b - u) >= Sq(rr) THEN "none"
        ELSE "partial"

\* strings that are no CSS colour (designs.json may hold any string; the
\* colour inputs of the design form only produce #rrggbb)
InvalidColors == {"notacolor"}

\* CSS colours whose alpha is below 1 (designs.json may hold any CSS colour;
\* the colour inputs of the design form only produce opaque #rrggbb)
TranslucentColors == {"rgba(0,0,0,0.5)"}

\* images with pixels whose alpha is below 1 (a PNG may hold any alpha)
TranslucentImages == {"data:image/png;base64,ALPHA"}

\* a paint that hides what it is drawn over (source-over, globalAlpha 1)
OpaquePaint(p) ==
    IF p[1] = "solid" THEN p[2] \notin TranslucentColors
    ELSE IF p[1] = "gradient" THEN p[2] \notin TranslucentColors /\ p[3] \notin TranslucentColors
    ELSE IF p[1] = "image" THEN p[2] \notin TranslucentImages
    ELSE p[1] = "clear"

\* the cell after an operation painting p has covered it as cover says:
\* an opaque paint (or clearRect) over the whole cell replaces what was there
Paint(v, p, cover) ==
    IF cover = "full" /\ OpaquePaint(p) THEN {p}
    ELSE IF cover \in {"full", "partial"} THEN v \cup {p}
    ELSE v


\* paints: <<kind, a, b>>
Solid(color) == <<"solid", color, "">>

Gradient(from, to) == <<"gradient", from, to>>

ImagePaint(src, filter) == <<"image", src, filter>>

Overlay(color, alpha) == <<"overlay", color, alpha>>

ClearPx == <<Clear, "", "">>

\* a pixel whose alpha has been scaled down by a destination-in fill with a
\* translucent fillStyle: its colour is kept, its alpha is not
Fade(p) ==
    IF p[1] = "solid" THEN <<"solid-faded", p[2], p[3]>>
    ELSE IF p[1] = "gradient" THEN <<"gradient-faded", p[2], p[3]>>
    ELSE IF p[1] = "image" THEN <<"image-faded", p[2], p[3]>>
    ELSE IF p[1] = "overlay" THEN <<"overlay-faded", p[2], p[3]>>
    ELSE p

\* one entry of the log of canvas operations
Op(name, x, y) == [op |-> name, x |-> x, y |-> y]

\* an operation that is not about one module or one eye
Op0(name) == Op(name, -1, -1)

\* (mutation of FillRegion: the fill runs over the whole canvas)
FillRegion_WholeCanvas(cv, n, p) == [c \in DOMAIN cv |-> {p}]

\* ctx.fillRect(padding, padding, qrRegionSize, qrRegionSize) with an opaque fillStyle
FillRegion(cv, n, p) ==
    [c \in DOMAIN cv |-> IF c \in RegionCells(n) THEN {p} ELSE cv[c]]

\* drawImage or fillRect over the padded region under the filter and the
\* globalAlpha of the context: the paint replaces what was there where it
\* covers (it is opaque, globalAlpha is 1) and is not faded by a blur; what
\* was there shows through everywhere else in the region
FilteredRegion(cv, n, p, covers, faded) ==
    [c \in DOMAIN cv |->
        IF c \notin RegionCells(n) THEN cv[c]
        ELSE IF covers /\ c \notin faded THEN {p}
        ELSE cv[c] \cup {p}]

\* ------------------------------------------------------------------------
\* The drawing state of the 2D context: what ctx.save() pushes and
\* ctx.restore() pops.  globalAlpha is in percent, the transform is the
\* translation in model units, the clip is the list of the paths clipped to.
\* ------------------------------------------------------------------------

NoFilter == <<"", "none">>

\* ctx.save(): the drawing state is pushed
Save(c) ==
    LET DrawingState ==
            <<c.fillStyle, c.globalAlpha, c.filter, c.globalCompositeOperation,
              c.transform, c.clip>>
    IN  [c EXCEPT !.stack = Append(@, DrawingState)]

\* ctx.restore(): the state saved last, or nothing if none is saved
Restore(c) ==
    IF Len(c.stack) = 0 THEN c
    ELSE LET t == c.stack[Len(c.stack)]
         IN  [fillStyle |-> t[1], globalAlpha |-> t[2], filter |-> t[3],
              globalCompositeOperation |-> t[4], transform |-> t[5], clip |-> t[6],
              stack |-> SubSeq(c.stack, 1, Len(c.stack) - 1)]

\* ctx.clip(path)
Clip(c, path) == [c EXCEPT !.clip = Append(@, path)]

\* ------------------------------------------------------------------------
\* drawBackground
\* ------------------------------------------------------------------------

\* (mutation of IsTransparentBackground: the flag is ignored)
IsTransparentBackground_Never(d) == FALSE

\* if (design.transparentBg && !design.useImage)
IsTransparentBackground(d) == d.transparentBg /\ ~d.useImage

\* if (design.useImage && bgImage)
IsImageBackground(d, img) == d.useImage /\ TruthyStr(img)

\* the fillStyle of the padded region when no image is drawn:
\* the gradient when both ends are set, else the backgroundColor already set
BackgroundFill(d) ==
    IF TruthyStr(d.bgGradientStart) /\ TruthyStr(d.bgGradientEnd)
    THEN Gradient(d.bgGradientStart, d.bgGradientEnd)
    ELSE Solid(d.backgroundColor)

\* the canvas when drawBackground returns to its caller: cleared, the quiet
\* zone filled, then cleared again (transparent), left for the image to load,
\* or the padded region filled
BackgroundSync(cv, d, img, n) ==
    LET quiet == [c \in DOMAIN cv |-> {Solid(d.backgroundColor)}]
        \* ctx.clearRect(0, 0, canvasSize, canvasSize)
        ClearAll == [c \in DOMAIN cv |-> {ClearPx}]
    IN  IF IsTransparentBackground(d) THEN ClearAll
        ELSE IF IsImageBackground(d, img) THEN quiet
        ELSE FillRegion(quiet, n, BackgroundFill(d))

\* the context when drawBackground returns to its caller
BackgroundSyncCtx(d, img) ==
    LET \* the context canvas.getContext('2d') returns for a new canvas
        NewContext ==
            [fillStyle |-> Solid("#000000"), globalAlpha |-> 100, filter |-> NoFilter,
             globalCompositeOperation |-> "source-over", transform |-> <<0, 0>>,
             clip |-> <<>>, stack |-> <<>>]
        quiet == [NewContext EXCEPT !.fillStyle = Solid(d.backgroundColor)]
    IN  IF IsTransparentBackground(d) THEN quiet
        ELSE IF IsImageBackground(d, img) THEN quiet
        ELSE [quiet EXCEPT !.fillStyle = BackgroundFill(d)]

BackgroundSyncOps(d, img) ==
    <<Op0("clearRect"), Op0("fillRect")>> \o
    (IF IsTransparentBackground(d) THEN <<Op0("clearRect")>>
     ELSE IF IsImageBackground(d, img) THEN <<Op0("imgSrc")>>
     ELSE <<Op0("fillRect")>>)

\* ctx.filter for the image: <<blur, named filter>>, the blur first
ImageFilterOf(d) ==
    LET blur == IF TruthyNum(d.imageBlur) /\ d.imageBlur > 0 THEN "blur" ELSE ""
        name == IF TruthyStr(d.imageFilter) THEN d.imageFilter ELSE "none"
    IN  <<blur, name>>

\* ctx.globalAlpha = design.imageOverlayOpacity || 0.5 (opacities in percent)
OverlayAlpha(d) ==
    IF TruthyNum(d.imageOverlayOpacity) THEN d.imageOverlayOpacity ELSE 50

\* The cells of the padded region in which what is drawn over the region
\* under ctx.filter = blur(b px) fades out: a blur of standard deviation b
\* spreads the edge of the drawn rectangle over three standard deviations, so
\* the rings of cells that begin less than 3 * b pixels from the edge of the
\* region are covered in part only.  (The image is square: cover-fitted, it
\* is drawn over exactly the region.)
BlurFaded(d, n, sz) ==
    IF ImageFilterOf(d)[1] # "blur" THEN {}
    ELSE LET reach == 2 * n * 3 * d.imageBlur
             Ring(c) == Min(Min(c[1], c[2]), Min(n + 1 - c[1], n + 1 - c[2])) - 1
         IN  {c \in RegionCells(n) : Ring(c) * Module2(sz, PaddingOf(d)) < reach}

\* img.onload: the image, cover-fitted and clipped to the padded region, then
\* the overlay over the padded region when an overlay colour is set, both
\* under the filter of the image
BackgroundImageLoaded(cv, d, img, n, sz) ==
    LET faded   == BlurFaded(d, n, sz)
        image   == ImagePaint(img, ImageFilterOf(d))
        overlay == Overlay(d.imageOverlayColor, OverlayAlpha(d))
        drawn   == FilteredRegion(cv, n, image, OpaquePaint(image), faded)
    IN  IF TruthyStr(d.imageOverlayColor)
        THEN FilteredRegion(drawn, n, overlay, OverlayAlpha(d) >= 100, faded)
        ELSE drawn

\* the context after img.onload: save, clip, filter, drawImage, the overlay
\* under its globalAlpha, restore
BackgroundImageLoadedCtx(c, d) ==
    LET clipped  == Clip(Save(c), "region")
        \* if (filterParts.length > 0)
        HasFilterParts ==
            \/ ImageFilterOf(d)[1] = "blur"
            \/ ImageFilterOf(d)[2] \in {"black-and-white", "light", "sketchy"}
        filtered == IF HasFilterParts THEN [clipped EXCEPT !.filter = ImageFilterOf(d)]
                    ELSE clipped
        overlaid == IF TruthyStr(d.imageOverlayColor)
                    THEN [filtered EXCEPT !.globalAlpha = OverlayAlpha(d),
                                          !.fillStyle = Solid(d.imageOverlayColor)]
                    ELSE filtered
    IN  Restore(overlaid)

BackgroundImageLoadedOps(d) ==
    <<Op0("save"), Op0("clip"), Op0("drawImage")>> \o
    (IF TruthyStr(d.imageOverlayColor) THEN <<Op0("fillRect")>> ELSE <<>>) \o
    <<Op0("restore")>>

\* (mutation of BackgroundImageFailed: the fallback takes the branch of a
\* design without image, gradient included)
BackgroundImageFailed_AsNoImage(cv, d, n) == FillRegion(cv, n, BackgroundFill(d))

\* img.onerror: the padded region filled with the backgroundColor
BackgroundImageFailed(cv, d, n) == FillRegion(cv, n, Solid(d.backgroundColor))

BackgroundImageFailedCtx(c, d) == [c EXCEPT !.fillStyle = Solid(d.backgroundColor)]


\* ------------------------------------------------------------------------
\* The then-callback of drawBackground(): modules, eyes, canvas shape, export
\* ------------------------------------------------------------------------

\* (mutation of UsePixelGradient: the gradient is used on image designs too)
UsePixelGradient_IgnoreImage(d) ==
    TruthyStr(d.pixelGradientStart) /\ TruthyStr(d.pixelGradientEnd)

\* (mutation of UsePixelGradient: one end of the gradient is enough)
UsePixelGradient_EitherEnd(d) ==
    (TruthyStr(d.pixelGradientStart) \/ TruthyStr(d.pixelGradientEnd)) /\ ~d.useImage

\* if (design.pixelGradientStart && design.pixelGradientEnd && !design.useImage)
UsePixelGradient(d) ==
    TruthyStr(d.pixelGradientStart) /\ TruthyStr(d.pixelGradientEnd) /\ ~d.useImage

\* gradient.addColorStop(offset, color) throws a SyntaxError when color is no
\* CSS colour: the then-callback ends there, and nothing catches it
AddColorStopThrows(d) ==
    UsePixelGradient(d)
    /\ (d.pixelGradientStart \in InvalidColors \/ d.pixelGradientEnd \in InvalidColors)

\* let pixelFillStyle = design.pixelColor, or the gradient
PixelFillStyle(d) ==
    IF UsePixelGradient(d)
    THEN Gradient(d.pixelGradientStart, d.pixelGradientEnd)
    ELSE Solid(d.pixelColor)

\* how drawModule's shape covers the module's cell
ModuleCover(style) ==
    IF style \in {"circle", "diamond", "rounded"} THEN "partial" ELSE "full"

\* if (!modules[index] || isFinderPattern(x, y, moduleCount)) continue
SkipsModule(qr, x, y) ==
    LET \* qrData.modules.data[index], indexed by y * moduleCount + x
        ModulesData(index) ==
            ModuleAt(qr.size, qr.pattern, index % qr.size, index \div qr.size)
    IN  ~ModulesData(y * qr.size + x) \/ isFinderPattern(x, y, qr.size)

\* the canvas after the loop over y and x that calls drawModule
DrawModules(cv, d, qr) ==
    [c \in DOMAIN cv |->
        IF c \in RegionCells(qr.size) /\ ~SkipsModule(qr, c[1] - 1, c[2] - 1)
        THEN Paint(cv[c], PixelFillStyle(d), ModuleCover(d.pixelStyle))
        ELSE cv[c]]

\* the drawModule calls of that loop, in its order: y outer, x inner
DrawModulesOps(qr) ==
    LET n   == qr.size
        all == [k \in 1..(n * n) |-> Op("drawModule", (k - 1) % n, (k - 1) \div n)]
        Drawn(e) == ~SkipsModule(qr, e.x, e.y)
    IN  SelectSeq(all, Drawn)

\* one shape filled (or cleared) on the canvas: the module or the eye layer it
\* belongs to, its paint, and the bounding box <<x0, x1, y0, y1>> of its path
\* on the canvas, in tenths of a model unit
Shape(kind, x, y, paint, box) ==
    [kind |-> kind, x |-> x, y |-> y, paint |-> paint, box |-> box]

\* a box of the current coordinate system, on the canvas
OnCanvas(c, box) ==
    <<box[1] + 10 * c.transform[1], box[2] + 10 * c.transform[1],
      box[3] + 10 * c.transform[2], box[4] + 10 * c.transform[2]>>

\* (mutation of ModuleBox: the padding is left out of top and left)
ModuleBox_NoPadding(style, x, y, moduleSize, padding) ==
    LET top   == 10 * (y * moduleSize)
        left  == 10 * (x * moduleSize)
        inset == IF style = "circle" THEN 5 * moduleSize - 9 * (moduleSize \div 2) ELSE 0
    IN  <<left + inset, left + 10 * moduleSize - inset,
          top + inset, top + 10 * moduleSize - inset>>

\* the bounding box of the path of drawModule(x, y, size, style): the circle of
\* radius (size / 2) * 0.9 about the centre of the cell; the diamond, the
\* rounded rectangle and the rectangle reach the four edges of the cell
ModuleBox(style, x, y, moduleSize, padding) ==
    LET top   == 10 * (y * moduleSize + padding)
        left  == 10 * (x * moduleSize + padding)
        inset == IF style = "circle" THEN 5 * moduleSize - 9 * (moduleSize \div 2) ELSE 0
    IN  <<left + inset, left + 10 * moduleSize - inset,
          top + inset, top + 10 * moduleSize - inset>>

\* the shapes the loop over the modules fills, in its order
DrawModulesShapes(c, d, qr, sz) ==
    LET pad  == PaddingOf(d)
        mods == DrawModulesOps(qr)
    IN  [k \in 1..Len(mods) |->
            Shape("module", mods[k].x, mods[k].y, PixelFillStyle(d),
                  OnCanvas(c, ModuleBox(d.pixelStyle, mods[k].x, mods[k].y,
                                        Module2(sz, pad), Pad2(qr.size, pad))))]

\* the context after the loop: ctx.fillStyle = pixelFillStyle, if a module was drawn
DrawModulesCtx(c, d, qr) ==
    IF Len(DrawModulesOps(qr)) > 0 THEN [c EXCEPT !.fillStyle = PixelFillStyle(d)] ELSE c

\* bounding boxes of the three paths of drawEye, in the eye's own coordinates.
\* Every frame silhouette spans 0..eyeSize both ways: the rounded rectangle;
\* the shield, whose points and control points lie between 0 and eyeSize; the
\* flower, whose petals end at eyeSize / 2 from the centre.
\* The socket is the circle of radius pupilBgSize / 2 about the centre, or the
\* rounded square of side pupilBgSize at pupilBgPos, and the fill is clipped
\* to it; the pupil is the circle of radius pupilSize / 2 about the centre, or
\* the rounded square of side pupilSize at pupilPos = (eyeSize - pupilSize) / 2.
EyeBoxes(d, moduleSize) ==
    LET eyeSize     == moduleSize * EyeModules
        pupilBgPos  == moduleSize
        pupilBgSize == eyeSize - moduleSize * 2
        pupilSize   == moduleSize * PupilModules
    IN  [frame  |-> <<0, 10 * eyeSize, 0, 10 * eyeSize>>,
         socket |-> IF d.eyeStyle = "circle"
                    THEN <<5 * eyeSize - 5 * pupilBgSize, 5 * eyeSize + 5 * pupilBgSize,
                           5 * eyeSize - 5 * pupilBgSize, 5 * eyeSize + 5 * pupilBgSize>>
                    ELSE <<10 * pupilBgPos, 10 * (pupilBgPos + pupilBgSize),
                           10 * pupilBgPos, 10 * (pupilBgPos + pupilBgSize)>>,
         pupil  |-> IF d.eyeStyle = "circle"
                    THEN <<5 * eyeSize - 5 * pupilSize, 5 * eyeSize + 5 * pupilSize,
                           5 * eyeSize - 5 * pupilSize, 5 * eyeSize + 5 * pupilSize>>
                    ELSE <<5 * (eyeSize - pupilSize), 5 * (eyeSize - pupilSize) + 10 * pupilSize,
                           5 * (eyeSize - pupilSize), 5 * (eyeSize - pupilSize) + 10 * pupilSize>>]

\* const eyeColor = design.pixelColor
EyeColor(d) == Solid(d.pixelColor)

\* how the three paths of drawEye cover cell (i, j) of the eye's 7x7 block.
\* The shield and the flower frames are bounded by curves inside the block:
\* any cell of the block may be covered in part.
EyeCover(d, i, j) ==
    LET pupilPos == (EyeModules - PupilModules) \div 2
    IN  [frame  |-> IF d.eyeShape \in {"shield", "flower"} THEN "partial"
                    ELSE RoundRectCover(EyeModules, 8, d.eyeRadius, i, j),
         socket |-> IF d.eyeStyle = "circle"
                    THEN DiscCover(EyeModules, EyeModules, EyeModules - 2,
                                   2 * i, 2 * i + 2, 2 * j, 2 * j + 2)
                    ELSE IF i \in 1..(EyeModules - 2) /\ j \in 1..(EyeModules - 2)
                         THEN RoundRectCover(EyeModules - 2, 16, d.eyeRadius, i - 1, j - 1)
                         ELSE "none",
         pupil  |-> IF d.eyeStyle = "circle"
                    THEN DiscCover(EyeModules, EyeModules, PupilModules,
                                   2 * i, 2 * i + 2, 2 * j, 2 * j + 2)
                    ELSE IF i \in pupilPos..(pupilPos + PupilModules - 1)
                            /\ j \in pupilPos..(pupilPos + PupilModules - 1)
                         THEN RoundRectCover(PupilModules, 16, d.eyeRadius,
                                             i - pupilPos, j - pupilPos)
                         ELSE "none"]

\* what the socket is carved with: cleared, or filled with the backgroundColor
SocketPaint(d) ==
    IF d.transparentBg /\ ~d.useImage THEN ClearPx ELSE Solid(d.backgroundColor)

\* drawEye(cornerX, cornerY): frame, socket, pupil, within the translated block
DrawEye(cv, d, cornerX, cornerY) ==
    [c \in DOMAIN cv |->
        LET i == c[1] - 1 - cornerX
            j == c[2] - 1 - cornerY
        IN  IF i \in 0..(EyeModules - 1) /\ j \in 0..(EyeModules - 1)
            THEN LET cover  == EyeCover(d, i, j)
                     frame  == Paint(cv[c], EyeColor(d), cover.frame)
                     socket == Paint(frame, SocketPaint(d), cover.socket)
                 IN  Paint(socket, EyeColor(d), cover.pupil)
            ELSE cv[c]]

\* the context of drawEye after ctx.save() and ctx.translate(padding +
\* cornerX * moduleSize, padding + cornerY * moduleSize)
EyeTranslated(c, d, cornerX, cornerY, n, sz) ==
    LET pad == PaddingOf(d)
    IN  [Save(c) EXCEPT !.transform = <<@[1] + Pad2(n, pad) + cornerX * Module2(sz, pad),
                                        @[2] + Pad2(n, pad) + cornerY * Module2(sz, pad)>>]

\* (mutation of DrawEyeCtx: the ctx.restore() that ends drawEye is missing)
DrawEyeCtx_NoRestore(c, d, cornerX, cornerY, n, sz) ==
    LET framed  == [EyeTranslated(c, d, cornerX, cornerY, n, sz) EXCEPT !.fillStyle = EyeColor(d)]
        clipped == Clip(Save(framed), "socket")
        carved  == IF d.transparentBg /\ ~d.useImage THEN clipped
                   ELSE [clipped EXCEPT !.fillStyle = Solid(d.backgroundColor)]
    IN  [Restore(carved) EXCEPT !.fillStyle = EyeColor(d)]

\* the context when drawEye returns: save, translate, the frame; save, clip,
\* the socket, restore; the pupil; restore
DrawEyeCtx(c, d, cornerX, cornerY, n, sz) ==
    LET framed  == [EyeTranslated(c, d, cornerX, cornerY, n, sz) EXCEPT !.fillStyle = EyeColor(d)]
        clipped == Clip(Save(framed), "socket")
        carved  == IF d.transparentBg /\ ~d.useImage THEN clipped
                   ELSE [clipped EXCEPT !.fillStyle = Solid(d.backgroundColor)]
    IN  Restore([Restore(carved) EXCEPT !.fillStyle = EyeColor(d)])

\* the three layers drawEye paints, in its order, where its transform puts them
DrawEyeShapes(c, d, cornerX, cornerY, n, sz) ==
    LET t == EyeTranslated(c, d, cornerX, cornerY, n, sz)
        box == EyeBoxes(d, Module2(sz, PaddingOf(d)))
    IN  <<Shape("frame", cornerX, cornerY, EyeColor(d), OnCanvas(t, box.frame)),
          Shape("socket", cornerX, cornerY, SocketPaint(d), OnCanvas(t, box.socket)),
          Shape("pupil", cornerX, cornerY, EyeColor(d), OnCanvas(t, box.pupil))>>

\* applyCanvasShape: for a circle, ctx.fill() of the disc inscribed in the
\* canvas under destination-in: every pixel keeps its colour and has its alpha
\* multiplied by the alpha of the fill at that pixel, which is 0 outside the
\* disc and the alpha of the current fillStyle inside it.  The fillStyle is
\* the one the loop over the modules set last (ctx.fillStyle = pixelFillStyle),
\* which the ctx.restore() of each drawEye brings back.
ApplyCanvasShape(cv, d, n, sz, pad) ==
    IF d.canvasShape = "circle"
    THEN [c \in DOMAIN cv |->
            LET inside == DiscCover(Canvas2(n, sz) \div 2, Canvas2(n, sz) \div 2,
                                    Canvas2(n, sz) \div 2,
                                    CellLo(n, sz, pad, c[1]), CellHi(n, sz, pad, c[1]),
                                    CellLo(n, sz, pad, c[2]), CellHi(n, sz, pad, c[2]))
                kept   == IF OpaquePaint(PixelFillStyle(d)) THEN cv[c]
                          ELSE {Fade(p) : p \in cv[c]}
            IN  IF inside = "full" THEN kept
                ELSE IF inside = "none" THEN {ClearPx}
                ELSE kept \cup {ClearPx}]
    ELSE cv

\* the three eyes, in the order of the calls
EyeCorners(n) == <<<<0, 0>>, <<n - EyeModules, 0>>, <<0, n - EyeModules>>>>

\* the canvas after the modules and the three eyes
DrawModulesAndEyes(cv, d, qr) ==
    LET e    == EyeCorners(qr.size)
        mods == DrawModules(cv, d, qr)
        eye1 == DrawEye(mods, d, e[1][1], e[1][2])
        eye2 == DrawEye(eye1, d, e[2][1], e[2][2])
    IN  DrawEye(eye2, d, e[3][1], e[3][2])

\* the context after applyCanvasShape: the composite operation is set for the
\* fill of the disc and set back
ApplyCanvasShapeCtx(c, d) ==
    IF d.canvasShape = "circle"
    THEN [c EXCEPT !.globalCompositeOperation = "source-over"]
    ELSE c

\* the context after the modules and the three eyes, and after the whole callback
RenderOnBackgroundCtx(c, d, qr, sz) ==
    LET e    == EyeCorners(qr.size)
        mods == DrawModulesCtx(c, d, qr)
        eye1 == DrawEyeCtx(mods, d, e[1][1], e[1][2], qr.size, sz)
        eye2 == DrawEyeCtx(eye1, d, e[2][1], e[2][2], qr.size, sz)
        eye3 == DrawEyeCtx(eye2, d, e[3][1], e[3][2], qr.size, sz)
    IN  ApplyCanvasShapeCtx(eye3, d)

\* the shapes the callback fills, in order: the modules, then each eye drawn
\* in the context the calls before it left
RenderOnBackgroundShapes(c, d, qr, sz) ==
    LET e    == EyeCorners(qr.size)
        mods == DrawModulesCtx(c, d, qr)
        eye1 == DrawEyeCtx(mods, d, e[1][1], e[1][2], qr.size, sz)
        eye2 == DrawEyeCtx(eye1, d, e[2][1], e[2][2], qr.size, sz)
    IN  DrawModulesShapes(c, d, qr, sz)
        \o DrawEyeShapes(mods, d, e[1][1], e[1][2], qr.size, sz)
        \o DrawEyeShapes(eye1, d, e[2][1], e[2][2], qr.size, sz)
        \o DrawEyeShapes(eye2, d, e[3][1], e[3][2], qr.size, sz)

\* the canvas after the whole callback
RenderOnBackground(cv, d, qr, sz) ==
    ApplyCanvasShape(DrawModulesAndEyes(cv, d, qr), d, qr.size, sz, PaddingOf(d))

\* (mutation of RenderOnBackgroundOps: the canvas shape is applied before the eyes)
RenderOnBackgroundOps_ShapeBeforeEyes(qr) ==
    LET e == EyeCorners(qr.size)
    IN  DrawModulesOps(qr) \o
        <<Op0("applyCanvasShape"),
          Op("drawEye", e[1][1], e[1][2]), Op("drawEye", e[2][1], e[2][2]),
          Op("drawEye", e[3][1], e[3][2]), Op0("toDataURL")>>

RenderOnBackgroundOps(qr) ==
    LET e == EyeCorners(qr.size)
    IN  DrawModulesOps(qr) \o
        <<Op("drawEye", e[1][1], e[1][2]), Op("drawEye", e[2][1], e[2][2]),
          Op("drawEye", e[3][1], e[3][2]),
          Op0("applyCanvasShape"), Op0("toDataURL")>>


\* ------------------------------------------------------------------------
\* Inputs
\* ------------------------------------------------------------------------

\* the values each Design field takes
DesignValues ==
    [ pixelStyle          : {"square", "rounded", "circle", "diamond"},
      pixelColor          : {"#000000"} \cup TranslucentColors,
      pixelGradientStart  : {Undefined, "", "#111111"},
      pixelGradientEnd    : {Undefined, "", "#222222"},
      eyeShape            : {"frame", "shield", "flower"},
      eyeStyle            : {"square", "circle"},
      eyeRadius           : {8},
      backgroundColor     : {"#FFFFFF"},
      bgGradientStart     : {"", "#EEEEEE"},
      bgGradientEnd       : {"#DDDDDD"},
      transparentBg       : BOOLEAN,
      padding             : {0, 16},
      canvasShape         : {"square", "circle"},
      useImage            : BOOLEAN,
      imageFilter         : {"none"},
      imageOverlayColor   : {"#FFFFFF"},
      imageOverlayOpacity : {50},
      imageBlur           : {0},
      logo                : {Undefined},
      logoSize            : {20} ]

\* the geometry of the design addDesign creates
DefaultGeometry(d) ==
    d.pixelStyle = "square" /\ d.eyeShape = "frame" /\ d.eyeStyle = "square"

\* a design whose pixelColor is one the colour input of the form produces
OpaquePixelColor(d) == d.pixelColor \notin TranslucentColors

\* the design addDesign creates, but for its padding, its eyes and its image switch
NewDesigns ==
    {d \in DesignValues :
        /\ d.pixelStyle = "square" /\ OpaquePixelColor(d)
        /\ d.pixelGradientStart = "" /\ d.pixelGradientEnd = ""
        /\ d.bgGradientStart = "" /\ ~d.transparentBg /\ d.canvasShape = "square"}

\* The designs handed to the renderer.  No test of the renderer reads a
\* geometry field (pixelStyle, eyeShape, eyeStyle) together with a paint field,
\* so the designs are every combination of the paint fields under the default
\* geometry and every combination of the geometry fields under plain paint,
\* each with every padding, canvas shape, transparency and background gradient;
\* a translucent pixelColor is tried under the default geometry without pixel
\* gradient.
\* Besides: the ends of the eye-radius slider
\* (max={30}); a design with a logo, whose logoSize is the fraction of the
\* matrix (in percent) the logo takes; image designs with every filter step
\* and overlay, the opacity slider running from 0 to 1 (max={1}), here in
\* percent; designs of designs.json with a gradient stop that is no colour.
RenderDesigns ==
    LET PaintAndGeometryDesigns ==
            {d \in DesignValues :
                \/ DefaultGeometry(d) /\ OpaquePixelColor(d)
                \/ /\ d.pixelGradientStart = "" /\ d.pixelGradientEnd = "" /\ ~d.useImage
                   /\ OpaquePixelColor(d)
                \/ DefaultGeometry(d) /\ d.pixelGradientStart = "" /\ d.pixelGradientEnd = ""}
        EyeRadiusDesigns ==
            {[d EXCEPT !.eyeRadius = r] :
                r \in {0, 30}, d \in {e \in NewDesigns : ~e.useImage}}
        LogoDesigns ==
            {[d EXCEPT !.logo = "data:image/png;base64,LOGO"] :
                d \in {e \in NewDesigns : DefaultGeometry(e) /\ ~e.useImage}}
        OverlayDesigns ==
            {[d EXCEPT !.imageOverlayOpacity = o, !.imageOverlayColor = c,
                       !.imageFilter = f, !.imageBlur = b] :
                o \in {0, 25, 100}, c \in {"", "#FFFFFF"}, f \in {"none", "sketchy"},
                b \in {0, 4}, d \in {e \in NewDesigns : DefaultGeometry(e) /\ e.useImage}}
        InvalidColorDesigns ==
            {[d EXCEPT !.pixelGradientStart = "#111111", !.pixelGradientEnd = c] :
                c \in InvalidColors, d \in {e \in NewDesigns : DefaultGeometry(e)}}
    IN  PaintAndGeometryDesigns \cup EyeRadiusDesigns \cup LogoDesigns
        \cup OverlayDesigns \cup InvalidColorDesigns

\* ------------------------------------------------------------------------
\* SpecFinder: isFinderPattern called on one coordinate of one matrix
\* ------------------------------------------------------------------------

RenderIdle ==
    /\ design = Null /\ bgImage = Null /\ qrData = Null /\ size = 0
    /\ rpc = "idle" /\ canvas = <<>> /\ ops = <<>>
    /\ pixelFillStyle = Null /\ dataUrl = Null
    /\ ctx = Null /\ shapes = <<>>

GenIdle ==
    /\ content = "" /\ designs = <<>> /\ generatedQrs = <<>>
    /\ isLoading = FALSE /\ toasts = <<>> /\ edits = 0
    /\ gen = [pc |-> "idle", run |-> 0, i |-> 0, designs |-> <<>>, drawn |-> <<>>,
              qrResults |-> <<>>, failures |-> <<>>]
    /\ svgTemplates = <<>>
    /\ requests = [designs |-> "settled", fetch |-> 0, json |-> 0, upload |-> "idle",
                   save |-> "idle", templateFile |-> FALSE]

PreviewIdle ==
    pv = [props |-> 0, isLoading |-> FALSE, qrCodeDataUrl |-> 0, effects |-> <<>>]

DownloadIdle ==
    dl = [pc |-> "idle", designs |-> <<>>, generatedQrs |-> <<>>, i |-> 0, zip |-> {}]

InjectIdle ==
    inj = [pc |-> "idle", elems |-> <<>>, text |-> "undefined",
           foregroundColor |-> "undefined", qrCodeDataUrl |-> "",
           svgText0 |-> <<>>, svgText1 |-> <<>>, svgText2 |-> <<>>, svgText3 |-> <<>>,
           svg |-> <<>>]

\* the matrix is scanned as drawCustomQr's loop scans it: y outer, x inner
InitFinder ==
    /\ probe \in [x : {0}, y : {0}, moduleCount : {SideOf(v) : v \in 1..MaxVersion}]
    /\ probeResult = <<>>
    /\ eyeSet = {}
    /\ RenderIdle
    /\ GenIdle
    /\ InjectIdle
    /\ PreviewIdle
    /\ DownloadIdle

CallIsFinderPattern ==
    /\ probe.moduleCount > 0 /\ probeResult = <<>>
    /\ probeResult' = <<isFinderPattern(probe.x, probe.y, probe.moduleCount)>>
    /\ eyeSet' = IF isFinderPattern(probe.x, probe.y, probe.moduleCount)
                 THEN eyeSet \cup {<<probe.x, probe.y>>} ELSE eyeSet
    /\ UNCHANGED <<probe, renderVars, genVars, injectVars, previewVars, downloadVars>>

\* x++, and y++ at the end of a row
NextCoordinate ==
    /\ probe.moduleCount > 0 /\ probeResult # <<>>
    /\ ~(probe.x = probe.moduleCount - 1 /\ probe.y = probe.moduleCount - 1)
    /\ probe' = IF probe.x < probe.moduleCount - 1
                THEN [probe EXCEPT !.x = @ + 1]
                ELSE [probe EXCEPT !.x = 0, !.y = @ + 1]
    /\ probeResult' = <<>>
    /\ UNCHANGED <<eyeSet, renderVars, genVars, injectVars, previewVars, downloadVars>>

NextFinder ==
    \/ CallIsFinderPattern
    \/ NextCoordinate

SpecFinder == InitFinder /\ [][NextFinder]_vars

\* ------------------------------------------------------------------------
\* SpecRender: drawCustomQr(qrData, design, bgImage, size)
\* ------------------------------------------------------------------------

FinderIdle ==
    /\ probe = [x |-> 0, y |-> 0, moduleCount |-> 0]
    /\ probeResult = <<>>
    /\ eyeSet = {}

InitRender ==
    /\ FinderIdle
    /\ GenIdle
    /\ InjectIdle
    /\ PreviewIdle
    /\ DownloadIdle
    /\ design \in RenderDesigns
    /\ bgImage \in {Null, "data:image/png;base64,BG"} \cup TranslucentImages
    /\ qrData \in [size : {SideOf(v) : v \in 1..MaxRenderVersion}, pattern : 1..MaxPattern]
    /\ size = QR_IMG_SIZE
    /\ rpc = "called"
    /\ canvas = <<>> /\ ops = <<>>
    /\ pixelFillStyle = Null /\ dataUrl = Null
    /\ ctx = Null /\ shapes = <<>>

\* the executor of the promise, up to the return of drawBackground():
\* the canvas is created, and the background painted or its image requested.
\* getContext('2d') may return null, and the promise is rejected.
DrawCustomQrStart ==
    /\ rpc = "called"
    /\ \E ctxOk \in BOOLEAN :
        IF ~ctxOk
        THEN /\ rpc' = "rejected"
             /\ dataUrl' = "Could not get canvas context"
             /\ UNCHANGED <<canvas, ops, ctx>>
        ELSE /\ canvas' = BackgroundSync([c \in CellIdx(qrData.size, PaddingOf(design))
                                                   \X CellIdx(qrData.size, PaddingOf(design)) |-> {Clear}],
                                         design, bgImage, qrData.size)
             /\ ops' = BackgroundSyncOps(design, bgImage)
             /\ ctx' = BackgroundSyncCtx(design, bgImage)
             /\ rpc' = IF ~IsTransparentBackground(design) /\ IsImageBackground(design, bgImage)
                       THEN "imgPending" ELSE "bgDone"
             /\ UNCHANGED dataUrl
    /\ UNCHANGED <<finderVars, injectVars, previewVars, downloadVars, genVars, design, bgImage,
                   qrData, size, pixelFillStyle, shapes>>

\* img.onload
ImgOnload ==
    /\ rpc = "imgPending"
    /\ canvas' = BackgroundImageLoaded(canvas, design, bgImage, qrData.size, size)
    /\ ops' = ops \o BackgroundImageLoadedOps(design)
    /\ ctx' = BackgroundImageLoadedCtx(ctx, design)
    /\ rpc' = "bgDone"
    /\ UNCHANGED <<finderVars, injectVars, previewVars, downloadVars, genVars, design, bgImage,
                   qrData, size, pixelFillStyle, dataUrl, shapes>>

\* img.onerror
ImgOnerror ==
    /\ rpc = "imgPending"
    /\ canvas' = BackgroundImageFailed(canvas, design, qrData.size)
    /\ ops' = ops \o <<Op0("fillRect")>>
    /\ ctx' = BackgroundImageFailedCtx(ctx, design)
    /\ rpc' = "bgDone"
    /\ UNCHANGED <<finderVars, injectVars, previewVars, downloadVars, genVars, design, bgImage,
                   qrData, size, pixelFillStyle, dataUrl, shapes>>

\* drawBackground().then(...): modules, eyes, canvas shape, resolve; or the
\* exception that ends the callback with the promise of drawCustomQr pending
DrawCustomQrThen ==
    /\ rpc = "bgDone"
    /\ IF AddColorStopThrows(design)
       THEN /\ pixelFillStyle' = Solid(design.pixelColor)
            /\ rpc' = "threw"
            /\ UNCHANGED <<canvas, ops, ctx, shapes, dataUrl>>
       ELSE /\ pixelFillStyle' = PixelFillStyle(design)
            /\ canvas' = RenderOnBackground(canvas, design, qrData, size)
            /\ ops' = ops \o RenderOnBackgroundOps(qrData)
            /\ ctx' = RenderOnBackgroundCtx(ctx, design, qrData, size)
            /\ shapes' = RenderOnBackgroundShapes(ctx, design, qrData, size)
            /\ dataUrl' = "data:image/png"
            /\ rpc' = "resolved"
    /\ UNCHANGED <<finderVars, injectVars, previewVars, downloadVars, genVars, design, bgImage, qrData, size>>

NextRender ==
    \/ DrawCustomQrStart
    \/ ImgOnload
    \/ ImgOnerror
    \/ DrawCustomQrThen

SpecRender == InitRender /\ [][NextRender]_vars


\* ------------------------------------------------------------------------
\* SpecGen: the component's state, handleGenerate over the list of designs,
\* and the edits of the content and of the designs the user may make meanwhile
\*
\* drawCustomQr is represented here by the way its promise settles (SpecRender
\* is the call itself); fetch, Response.text and the encoding of the SVG are
\* the browser's, and settle or throw as the browser decides.
\* ------------------------------------------------------------------------

\* a text longer than a QR code of error-correction level H holds: QRCode.create throws
OversizedContent == "oversized"

Toast(kind, designId) == [kind |-> kind, design |-> designId]

\* {designId: design.id, svg: ...}: the template of the design with the
\* raster of the design injected
Artifact(d) == [designId |-> d.id, svg |-> <<d.template, d.id>>]

\* (mutation of PushArtifact: the artifact is put in front)
PushArtifact_Unshift(qrResults, d) == <<Artifact(d)>> \o qrResults

\* qrResults.push({...})
PushArtifact(qrResults, d) == Append(qrResults, Artifact(d))

\* (mutation of RunDesigns: the loop reads the list of the latest render)
RunDesigns_Live(g) == designs

\* the designs the loop of a run iterates over: the list of the render whose
\* handleGenerate was called, kept by the closure
RunDesigns(g) == g.designs

\* (mutation of GenerateDisabled: the button is never disabled)
GenerateDisabled_Never == FALSE

\* <Button onClick={handleGenerate} disabled={isLoading}>
GenerateDisabled == isLoading

\* a run between its first await and its end
InFlightPcs == {"draw", "fetch", "text"}

InitGen ==
    /\ FinderIdle
    /\ RenderIdle
    /\ InjectIdle
    /\ PreviewIdle
    /\ DownloadIdle
    /\ content = "https://firebase.google.com/"
    /\ designs = <<>>
    /\ svgTemplates = <<>>
    /\ generatedQrs = <<>>
    /\ isLoading = FALSE
    /\ toasts = <<>>
    /\ edits = 0
    /\ gen = [pc |-> "idle", run |-> 0, i |-> 0, designs |-> <<>>, drawn |-> <<>>,
              qrResults |-> <<>>, failures |-> <<>>]
    /\ requests = [designs |-> "pending", fetch |-> 1, json |-> 0, upload |-> "idle",
                   save |-> "idle", templateFile |-> FALSE]

\* the rest of the state of the studio, left alone by the requests
RequestFrame == <<finderVars, injectVars, previewVars, downloadVars, renderVars, content,
                  generatedQrs, isLoading, gen>>

\* fetch('/designs.json') of the mount effect settles: res.json() is called,
\* or the toast of the catch
DesignsFetched ==
    /\ requests.designs = "pending"
    /\ \/ /\ requests' = [requests EXCEPT !.designs = "json"]
          /\ UNCHANGED toasts
       \/ /\ requests' = [requests EXCEPT !.designs = "settled"]
          /\ toasts' = toasts \o <<Toast("designs-error", 0)>>
    /\ UNCHANGED <<RequestFrame, designs, edits, svgTemplates>>

\* res.json() of the mount effect settles: setDesigns(data), or the toast of
\* the catch
DesignsLoaded ==
    /\ requests.designs = "json"
    /\ requests' = [requests EXCEPT !.designs = "settled"]
    /\ \/ /\ LET \* the designs of designs.json: ids 1..k, in order
                  GenDesign(id) ==
                      [id |-> id, name |-> <<"Design", id>>,
                       template |-> "/templates/template1.svg", useImage |-> FALSE]
              IN  \E m \in 0..MaxDesigns : designs' = [k \in 1..m |-> GenDesign(k)]
          /\ UNCHANGED toasts
       \/ /\ toasts' = toasts \o <<Toast("designs-error", 0)>>
          /\ UNCHANGED designs
    /\ UNCHANGED <<RequestFrame, edits, svgTemplates>>

\* fetch('/api/templates') of one call of fetchTemplates settles: res.json()
\* is called, or the fallback and the toast of the catch
TemplatesFetched ==
    /\ requests.fetch > 0
    /\ \/ /\ requests' = [requests EXCEPT !.fetch = @ - 1, !.json = @ + 1]
          /\ UNCHANGED <<svgTemplates, toasts>>
       \/ /\ requests' = [requests EXCEPT !.fetch = @ - 1]
          /\ svgTemplates' = <<"/templates/template1.svg">>
          /\ toasts' = toasts \o <<Toast("templates-error", 0)>>
    /\ UNCHANGED <<RequestFrame, designs, edits>>

\* res.json() of one call of fetchTemplates settles: setSvgTemplates(data),
\* or the fallback and its toast when the list is empty or the parse fails
TemplatesLoaded ==
    /\ requests.json > 0
    /\ requests' = [requests EXCEPT !.json = @ - 1]
    \* the lists /api/templates answers with: two with templates, and none
    /\ \/ \E data \in {<<"/templates/template1.svg">>,
                        <<"/templates/template2.svg", "/templates/template1.svg">>,
                        <<>>} :
             IF Len(data) > 0
             THEN svgTemplates' = data /\ UNCHANGED toasts
             ELSE /\ svgTemplates' = <<"/templates/template1.svg">>
                  /\ toasts' = toasts \o <<Toast("no-templates", 0)>>
       \/ /\ svgTemplates' = <<"/templates/template1.svg">>
          /\ toasts' = toasts \o <<Toast("templates-error", 0)>>
    /\ UNCHANGED <<RequestFrame, designs, edits>>

\* onChange of the file input: setTemplateFile(e.target.files?.[0] || null)
SetTemplateFile ==
    /\ edits < MaxEdits
    /\ edits' = edits + 1
    /\ \E file \in BOOLEAN : requests' = [requests EXCEPT !.templateFile = file]
    /\ UNCHANGED <<RequestFrame, designs, toasts, svgTemplates>>

\* handleTemplateUpload, to its first await; the Upload button is disabled
\* while isUploading
HandleTemplateUpload ==
    /\ edits < MaxEdits
    /\ edits' = edits + 1
    /\ requests.upload = "idle"
    /\ IF ~requests.templateFile
       THEN /\ toasts' = toasts \o <<Toast("no-file", 0)>>
            /\ UNCHANGED requests
       ELSE /\ requests' = [requests EXCEPT !.upload = "post"]
            /\ UNCHANGED toasts
    /\ UNCHANGED <<RequestFrame, designs, svgTemplates>>

\* await fetch('/api/upload-template') settles: the toast 'Success!',
\* setTemplateFile(null) and a new call of fetchTemplates; or the call of
\* response.json() of a response that is not ok; or the toast of the catch
UploadSettled ==
    /\ requests.upload = "post"
    /\ \/ /\ toasts' = toasts \o <<Toast("upload-success", 0)>>
          /\ requests' = [requests EXCEPT !.upload = "idle", !.templateFile = FALSE,
                                           !.fetch = @ + 1]
       \/ /\ requests' = [requests EXCEPT !.upload = "errorJson"]
          /\ UNCHANGED toasts
       \/ /\ toasts' = toasts \o <<Toast("upload-failed", 0)>>
          /\ requests' = [requests EXCEPT !.upload = "idle"]
    /\ UNCHANGED <<RequestFrame, designs, edits, svgTemplates>>

\* await response.json() of the failed upload settles: the error thrown, or
\* the rejection, reaches the catch
UploadErrorParsed ==
    /\ requests.upload = "errorJson"
    /\ toasts' = toasts \o <<Toast("upload-failed", 0)>>
    /\ requests' = [requests EXCEPT !.upload = "idle"]
    /\ UNCHANGED <<RequestFrame, designs, edits, svgTemplates>>

\* saveDesignsToServer, to its first await; the Save button is disabled
\* while isSaving
SaveDesignsToServer ==
    /\ edits < MaxEdits
    /\ edits' = edits + 1
    /\ requests.save = "idle"
    /\ requests' = [requests EXCEPT !.save = "post"]
    /\ UNCHANGED <<RequestFrame, designs, toasts, svgTemplates>>

\* await fetch('/api/save-designs') settles: the toast 'Designs Saved'; or the
\* call of response.json() of a response that is not ok; or the toast of the
\* catch
SaveSettled ==
    /\ requests.save = "post"
    /\ \/ /\ toasts' = toasts \o <<Toast("designs-saved", 0)>>
          /\ requests' = [requests EXCEPT !.save = "idle"]
       \/ /\ requests' = [requests EXCEPT !.save = "errorJson"]
          /\ UNCHANGED toasts
       \/ /\ toasts' = toasts \o <<Toast("save-failed", 0)>>
          /\ requests' = [requests EXCEPT !.save = "idle"]
    /\ UNCHANGED <<RequestFrame, designs, edits, svgTemplates>>

\* await response.json() of the failed save settles: the error thrown, or
\* the rejection, reaches the catch
SaveErrorParsed ==
    /\ requests.save = "errorJson"
    /\ toasts' = toasts \o <<Toast("save-failed", 0)>>
    /\ requests' = [requests EXCEPT !.save = "idle"]
    /\ UNCHANGED <<RequestFrame, designs, edits, svgTemplates>>

\* a click on the copy button of the prompt: the toast 'Copied!'
CopyPrompt ==
    /\ edits < MaxEdits
    /\ edits' = edits + 1
    /\ toasts' = toasts \o <<Toast("copied", 0)>>
    /\ UNCHANGED <<RequestFrame, designs, svgTemplates, requests>>

\* after the loop: setGeneratedQrs(qrResults), the toast of the batch, and
\* finally setIsLoading(false); shown are the toasts of this step
GenFinish(g, shown) ==
    /\ generatedQrs' = g.qrResults
    /\ toasts' = toasts \o shown \o
          <<IF Len(g.qrResults) > 0 THEN Toast("success", 0) ELSE Toast("generation-failed", 0)>>
    /\ isLoading' = FALSE
    /\ gen' = [g EXCEPT !.pc = "done"]

\* catch (err): the toast of the batch, and finally setIsLoading(false);
\* qrResults is dropped with the try block
GenCatch(g) ==
    /\ toasts' = toasts \o <<Toast("unexpected-error", 0)>>
    /\ isLoading' = FALSE
    /\ UNCHANGED generatedQrs
    /\ gen' = [g EXCEPT !.pc = "done"]

\* the next iteration of for (const design of designs): the call of
\* drawCustomQr for design i, or the end of the loop
GenIterate(g, i, shown) ==
    IF i <= Len(RunDesigns(g))
    THEN /\ gen' = [g EXCEPT !.pc = "draw", !.i = i, !.drawn = Append(@, RunDesigns(g)[i])]
         /\ toasts' = toasts \o shown
         /\ UNCHANGED <<generatedQrs, isLoading>>
    ELSE GenFinish([g EXCEPT !.i = i], shown)

\* (mutation of GenRefuse: the result set is cleared before the content is tested)
GenRefuse_ClearsResults ==
    /\ toasts' = toasts \o <<Toast("content-empty", 0)>>
    /\ gen' = [gen EXCEPT !.pc = "refused", !.run = @ + 1]
    /\ generatedQrs' = <<>>
    /\ UNCHANGED isLoading

\* if (!content) { toast(...); return; }
GenRefuse ==
    /\ toasts' = toasts \o <<Toast("content-empty", 0)>>
    /\ gen' = [gen EXCEPT !.pc = "refused", !.run = @ + 1]
    /\ UNCHANGED <<generatedQrs, isLoading>>

\* a click on the Generate button: handleGenerate, to its first await
HandleGenerate ==
    /\ ~GenerateDisabled
    /\ gen.run < MaxRuns
    /\ IF content = ""
       THEN GenRefuse
       ELSE LET g == [gen EXCEPT !.run = @ + 1, !.i = 0, !.designs = designs,
                                 !.drawn = <<>>, !.qrResults = <<>>, !.failures = <<>>]
            IN  IF content = OversizedContent
                THEN \* setIsLoading(true); setGeneratedQrs([]); QRCode.create throws
                     /\ generatedQrs' = <<>>
                     /\ toasts' = toasts \o <<Toast("unexpected-error", 0)>>
                     /\ isLoading' = FALSE
                     /\ gen' = [g EXCEPT !.pc = "done",
                                         !.failures = <<[design |-> 0, at |-> "create"]>>]
                ELSE IF Len(RunDesigns(g)) = 0
                THEN GenFinish(g, <<>>)
                ELSE /\ generatedQrs' = <<>>
                     /\ isLoading' = TRUE
                     /\ gen' = [g EXCEPT !.pc = "draw", !.i = 1,
                                         !.drawn = <<RunDesigns(g)[1]>>]
                     /\ UNCHANGED toasts
    /\ UNCHANGED <<finderVars, injectVars, previewVars, downloadVars, renderVars, content, designs, edits,
                   svgTemplates, requests>>

\* the design of the iteration under way
LoopDesign(g) == g.drawn[Len(g.drawn)]

Failed(g, at) ==
    [g EXCEPT !.failures = Append(@, [design |-> LoopDesign(g).id, at |-> at])]

\* await drawCustomQr(...) settles; on success fetch(design.template) is called
GenDrawSettled ==
    /\ gen.pc = "draw"
    /\ \E outcome \in {"resolved", "rejected"} :
          IF outcome = "resolved"
          THEN /\ gen' = [gen EXCEPT !.pc = "fetch"]
               /\ UNCHANGED <<generatedQrs, isLoading, toasts>>
          ELSE GenCatch(Failed(gen, "draw"))
    /\ UNCHANGED <<finderVars, injectVars, previewVars, downloadVars, renderVars, content, designs, edits,
                   svgTemplates, requests>>

\* the then-callback of drawCustomQr throws (AddColorStopThrows in SpecRender):
\* nothing rejects the promise, and handleGenerate never passes its await
GenDrawThrows ==
    /\ gen.pc = "draw"
    /\ gen' = [gen EXCEPT !.pc = "hung"]
    /\ UNCHANGED <<finderVars, injectVars, previewVars, downloadVars, renderVars, content, designs, edits,
                   generatedQrs, isLoading, toasts, svgTemplates, requests>>

\* await fetch(design.template) settles: a response that is ok, a response
\* that is not (toast, continue), or a rejection
GenFetchSettled ==
    /\ gen.pc = "fetch"
    /\ \E outcome \in {"ok", "notOk", "rejected"} :
          IF outcome = "ok"
          THEN /\ gen' = [gen EXCEPT !.pc = "text"]
               /\ UNCHANGED <<generatedQrs, isLoading, toasts>>
          ELSE IF outcome = "notOk"
          THEN GenIterate(Failed(gen, "fetch-not-ok"), gen.i + 1,
                          <<Toast("template-error", LoopDesign(gen).id)>>)
          ELSE GenCatch(Failed(gen, "fetch-rejected"))
    /\ UNCHANGED <<finderVars, injectVars, previewVars, downloadVars, renderVars, content, designs, edits,
                   svgTemplates, requests>>

\* await templateResponse.text() settles; the text is injected, encoded and
\* pushed, unless the encoding throws
GenTextSettled ==
    /\ gen.pc = "text"
    /\ \E outcome \in {"pushed", "text-rejected", "encode-throws"} :
          IF outcome = "pushed"
          THEN GenIterate([gen EXCEPT !.qrResults = PushArtifact(@, LoopDesign(gen))],
                          gen.i + 1, <<>>)
          ELSE GenCatch(Failed(gen, outcome))
    /\ UNCHANGED <<finderVars, injectVars, previewVars, downloadVars, renderVars, content, designs, edits,
                   svgTemplates, requests>>

\* onChange of the content input: setContent(e.target.value)
SetContent ==
    /\ edits < MaxEdits
    \* the empty text, the text the component starts with, and an oversized one
    /\ \E c \in {"", "https://firebase.google.com/", OversizedContent} \ {content} :
          content' = c
    /\ edits' = edits + 1
    /\ UNCHANGED <<finderVars, injectVars, previewVars, downloadVars, renderVars, designs, generatedQrs, isLoading, toasts, gen,
                   svgTemplates, requests>>

\* (mutation of MaxId: the length of the list is taken for its largest id)
MaxId_Length(list) == Len(list)

\* Math.max(...designs.map(d => d.id))
MaxId(list) == CHOOSE m \in {list[k].id : k \in 1..Len(list)} :
                   \A k \in 1..Len(list) : list[k].id <= m

\* addDesign(isImageDesign)
AddDesign ==
    /\ edits < MaxEdits
    /\ Len(designs) < MaxDesigns
    /\ \E isImageDesign \in BOOLEAN :
          LET newId == IF Len(designs) > 0 THEN MaxId(designs) + 1 ELSE 1
              newDesign ==
                  [id |-> newId,
                   name |-> <<IF isImageDesign THEN "New Image Design" ELSE "New Basic Design",
                              newId>>,
                   \* template: svgTemplates[0] || ''
                   template |-> IF Len(svgTemplates) > 0 THEN svgTemplates[1] ELSE "",
                   useImage |-> isImageDesign]
          IN  designs' = Append(designs, newDesign)
    /\ edits' = edits + 1
    /\ UNCHANGED <<finderVars, injectVars, previewVars, downloadVars, renderVars, content, generatedQrs, isLoading, toasts, gen,
                   svgTemplates, requests>>

\* updateDesign(id, updatedProps), from the form of a design of the list, with
\* the properties the template select and the image switch of the form set
UpdateDesign ==
    /\ edits < MaxEdits
    /\ \E k \in 1..Len(designs),
          updatedProps \in [template : {svgTemplates[t] : t \in 1..Len(svgTemplates)}]
                           \cup [useImage : BOOLEAN] :
          LET id == designs[k].id
              \* { ...d, ...updatedProps }
              Merge(d) ==
                  [f \in DOMAIN d |->
                      IF f \in DOMAIN updatedProps THEN updatedProps[f] ELSE d[f]]
          IN  /\ designs' = [j \in 1..Len(designs) |->
                                IF designs[j].id = id
                                THEN Merge(designs[j]) ELSE designs[j]]
              /\ designs' # designs
    /\ edits' = edits + 1
    /\ UNCHANGED <<finderVars, injectVars, previewVars, downloadVars, renderVars, content, generatedQrs, isLoading, toasts, gen,
                   svgTemplates, requests>>

\* removeDesign(id), from the form of a design of the list
RemoveDesign ==
    /\ edits < MaxEdits
    /\ \E k \in 1..Len(designs) :
          LET id == designs[k].id
              Other(d) == d.id # id
          IN  designs' = SelectSeq(designs, Other)
    /\ edits' = edits + 1
    /\ UNCHANGED <<finderVars, injectVars, previewVars, downloadVars, renderVars, content, generatedQrs, isLoading, toasts, gen,
                   svgTemplates, requests>>

NextGen ==
    \/ DesignsFetched
    \/ DesignsLoaded
    \/ TemplatesFetched
    \/ TemplatesLoaded
    \/ SetTemplateFile
    \/ HandleTemplateUpload
    \/ UploadSettled
    \/ UploadErrorParsed
    \/ SaveDesignsToServer
    \/ SaveSettled
    \/ SaveErrorParsed
    \/ CopyPrompt
    \/ HandleGenerate
    \/ GenDrawSettled
    \/ GenDrawThrows
    \/ GenFetchSettled
    \/ GenTextSettled
    \/ SetContent
    \/ AddDesign
    \/ UpdateDesign
    \/ RemoveDesign

SpecGen == InitGen /\ [][NextGen]_vars


\* ------------------------------------------------------------------------
\* SpecInject: the injection of the raster and of the design's text into the
\* text of one template (handleGenerate, from templateResponse.text() to
\* qrResults.push)
\*
\* The text of a template is a sequence of tokens.  A token stands for a run
\* of characters that the three regular expressions of the injection treat
\* alike: a tag opener, an attribute name with its =, a quote, a run of
\* whitespace, a run of characters free of quotes, < and >, or a tag end.
\* ------------------------------------------------------------------------

DQ == "dq"

SQ == "sq"

\* the tokens that hold the character >
HasGt(tok) == tok \in {">", "/>", "</text>", "<svg>", "</svg>"}

\* one element of a template: its kind, a width attribute before the
\* reference (pre: none, or the quote it is written with), the attribute that
\* holds a reference or a fill (attr, quote, value), and its content
Elem(kind, pre, attr, quote, value, elemContent) ==
    [kind |-> kind, pre |-> pre, attr |-> attr, quote |-> quote, value |-> value,
     content |-> elemContent]

\* the elements a template is made of: images, texts, and an element that is
\* not an image and holds a reference
TemplateElems ==
    LET ImageElems ==
            {Elem("image", "none", a, q, <<"placeholder">>, <<>>) :
                a \in {"href=", "xlink:href="}, q \in {DQ, SQ}}
            \cup {Elem("image", SQ, "href=", DQ, <<"placeholder">>, <<>>),
                  Elem("image", DQ, "none", "none", <<>>, <<>>)}
        TextElems ==
            {Elem("text", "none", "fill=", q, <<"#old">>, <<"TEXT">>) : q \in {DQ, SQ}}
            \cup {Elem("text", "none", "none", "none", <<>>, <<"TEXT">>),
                  Elem("text", "none", "none", "none", <<>>, <<" ", "TEXT", " ">>),
                  Elem("text", "none", "fill=", DQ, <<"#old">>, <<"Title">>)}
        UseElems == {Elem("use", "none", "href=", DQ, <<"#sym">>, <<>>)}
    IN  ImageElems \cup TextElems \cup UseElems

\* the text of one element
Flatten(e) ==
    LET open     == IF e.kind = "image" THEN "<image"
                    ELSE IF e.kind = "text" THEN "<text" ELSE "<use"
        prePart  == IF e.pre = "none" THEN <<>>
                    ELSE <<" ", "width=", e.pre, "10", e.pre>>
        attrPart == IF e.attr = "none" THEN <<>>
                    ELSE <<" ", e.attr, e.quote>> \o e.value \o <<e.quote>>
        close    == IF e.kind = "text" THEN <<">">> \o e.content \o <<"</text>">>
                    ELSE <<"/>">>
    IN  <<open>> \o prePart \o attrPart \o close

RECURSIVE FlattenAll(_)
FlattenAll(es) ==
    IF es = <<>> THEN <<>> ELSE Flatten(Head(es)) \o FlattenAll(Tail(es))

\* the text of the template made of the elements es
TemplateText(es) == <<"<svg>">> \o FlattenAll(es) \o <<"</svg>">>

\* the least member of a set of positions, 0 when it is empty
FirstOf(S) == IF S = {} THEN 0 ELSE CHOOSE m \in S : \A k \in S : m <= k

\* [^>]*? between <image at s and the attribute name at h
ImagePrefixOk(t, s, h) == \A k \in (s + 1)..(h - 1) : ~HasGt(t[k])

\* (mutation of IsHrefQuote: the double quote only)
IsHrefQuote_DoubleOnly(q) == q = DQ

\* (["'])
IsHrefQuote(q) == q \in {DQ, SQ}

\* the quote that ends (?:[^"']*) for a value opened at h + 1: the first one
ValueEnd(t, h) == FirstOf({k \in (h + 2)..Len(t) : t[k] \in {DQ, SQ}})

\* /(<image[^>]*?(?:href|xlink:href)=)(["'])(?:[^"']*)(\2)/ matches from s
\* with the attribute name at h
ImageMatchAt(t, s, h) ==
    /\ t[s] = "<image" /\ h > s /\ h + 1 <= Len(t)
    /\ ImagePrefixOk(t, s, h)
    /\ t[h] \in {"href=", "xlink:href="}
    /\ IsHrefQuote(t[h + 1])
    /\ ValueEnd(t, h) # 0
    /\ t[ValueEnd(t, h)] = t[h + 1]

\* the match the regular expression finds: the leftmost start, and from it
\* the shortest prefix (the quantifier is lazy); <<>> when there is none
ImageMatch(t) ==
    LET ms == {m \in (1..Len(t)) \X (1..Len(t)) : ImageMatchAt(t, m[1], m[2])}
        s0 == FirstOf({m[1] : m \in ms})
        h0 == FirstOf({m[2] : m \in {x \in ms : x[1] = s0}})
    IN  IF ms = {} THEN <<>> ELSE <<s0, h0, ValueEnd(t, h0)>>

\* svgText.replace(/(<image...)/, `$1$2${qrCodeDataUrl}$3`): no g flag, the
\* first match only
InjectImage(t, url) ==
    LET m == ImageMatch(t)
    IN  IF m = <<>> THEN t
        ELSE SubSeq(t, 1, m[2] + 1) \o <<url>> \o SubSeq(t, m[3], Len(t))

\* the token that holds the > ending <text[^>]*> opened at s, 0 if none
TagEnd(t, s) == FirstOf({k \in (s + 1)..Len(t) : HasGt(t[k])})

\* \s*: the first token from k on that is not whitespace, 0 if none
SkipSpaces(t, k) == FirstOf({j \in k..Len(t) : t[j] # " "})

\* /(<text[^>]*>)\s*TEXT\s*(<\/text>)/ from s: the position of </text>, 0 if no match
TextMatchEnd(t, s) ==
    IF t[s] # "<text" \/ TagEnd(t, s) = 0 THEN 0
    ELSE LET a == SkipSpaces(t, TagEnd(t, s) + 1)
         IN  IF a = 0 \/ t[a] # "TEXT" THEN 0
             ELSE LET b == SkipSpaces(t, a + 1)
                  IN  IF b = 0 \/ t[b] # "</text>" THEN 0 ELSE b

\* a replacement string as String.prototype.replace reads it: $1 and $2 are
\* the groups of the match
ExpandReplacement(str, group1, group2) ==
    IF str = "$1" THEN group1 ELSE IF str = "$2" THEN group2 ELSE <<str>>

\* svgText.replace(/(<text[^>]*>)\s*TEXT\s*(<\/text>)/g, `$1${design.text}$2`)
RECURSIVE ReplaceAllText(_, _)
ReplaceAllText(t, text) ==
    LET s == FirstOf({k \in 1..Len(t) : TextMatchEnd(t, k) # 0})
    IN  IF s = 0 THEN t
        ELSE LET g == TagEnd(t, s)
                 b == TextMatchEnd(t, s)
             IN  SubSeq(t, 1, g)
                 \o ExpandReplacement(text, SubSeq(t, s, g), <<t[b]>>)
                 \o <<t[b]>>
                 \o ReplaceAllText(SubSeq(t, b + 1, Len(t)), text)

\* /(<text[^>]*fill=")[^"]*(")/ from s: the position of fill=, the last one
\* before the end of the tag (the quantifier is greedy), 0 if no match
FillMatchAt(t, s) ==
    IF t[s] # "<text" THEN 0
    ELSE LET g  == TagEnd(t, s)
             hi == IF g = 0 THEN Len(t) ELSE g - 1
             fills == {h \in (s + 1)..(hi - 1) :
                          /\ t[h] = "fill=" /\ t[h + 1] = DQ
                          /\ \E e \in (h + 2)..Len(t) : t[e] = DQ}
         IN  IF fills = {} THEN 0 ELSE CHOOSE m \in fills : \A k \in fills : m >= k

\* svgText.replace(/(<text[^>]*fill=")[^"]*(")/g, `$1${design.foregroundColor}$2`)
RECURSIVE ReplaceAllFill(_, _)
ReplaceAllFill(t, color) ==
    LET s == FirstOf({k \in 1..Len(t) : FillMatchAt(t, k) # 0})
    IN  IF s = 0 THEN t
        ELSE LET h == FillMatchAt(t, s)
                 e == FirstOf({k \in (h + 2)..Len(t) : t[k] = DQ})
             IN  SubSeq(t, 1, h + 1) \o <<color>> \o <<DQ>>
                 \o ReplaceAllFill(SubSeq(t, e + 1, Len(t)), color)

\* templateResponse.text() has resolved with the text of a template
InitInject ==
    /\ FinderIdle
    /\ RenderIdle
    /\ GenIdle
    /\ PreviewIdle
    /\ DownloadIdle
    /\ \E es \in UNION {[1..m -> TemplateElems] : m \in 0..MaxElems}, text \in {Undefined, "Hello", "$1"},
          fg \in {Undefined, "#0000FF"} :
          inj = [pc |-> "text", elems |-> es, text |-> text, foregroundColor |-> fg,
                 qrCodeDataUrl |-> "data:image/png;base64,QR",
                 svgText0 |-> TemplateText(es),
                 svgText1 |-> <<>>, svgText2 |-> <<>>, svgText3 |-> <<>>, svg |-> <<>>]

\* the three replaces and the push: svgText after each replace is kept
InjectArtifact ==
    /\ inj.pc = "text"
    /\ LET t1 == InjectImage(inj.svgText0, inj.qrCodeDataUrl)
           t2 == IF TruthyStr(inj.text) THEN ReplaceAllText(t1, inj.text) ELSE t1
           t3 == IF TruthyStr(inj.text) /\ TruthyStr(inj.foregroundColor)
                 THEN ReplaceAllFill(t2, inj.foregroundColor) ELSE t2
       IN  inj' = [inj EXCEPT !.pc = "pushed", !.svgText1 = t1, !.svgText2 = t2,
                              !.svgText3 = t3,
                              !.svg = <<"data:image/svg+xml;base64,">> \o t3]
    /\ UNCHANGED <<finderVars, renderVars, genVars, previewVars, downloadVars>>

NextInject == InjectArtifact

SpecInject == InitInject /\ [][NextInject]_vars


\* ------------------------------------------------------------------------
\* SpecPreview: one DesignPreview component.  Its props (design and
\* backgroundImage) are numbered: pv.props = k are the props after k - 1
\* changes.  Each run of the effect is a closure with the props it captured,
\* its isMounted flag, its timer and the render it started; the image stored
\* in qrCodeDataUrl is numbered by the props it was rendered from, 0 for ''.
\* ------------------------------------------------------------------------

\* the effect run for props k: setIsLoading(true) has been called and
\* setTimeout(generate, 300) is pending
Effect(k) == [props |-> k, isMounted |-> TRUE, timer |-> "pending", render |-> "none"]

\* useState('') and useState(true), and the effect of the first render
InitPreview ==
    /\ FinderIdle
    /\ RenderIdle
    /\ GenIdle
    /\ InjectIdle
    /\ DownloadIdle
    /\ pv = [props |-> 1, isLoading |-> TRUE, qrCodeDataUrl |-> 0, effects |-> <<Effect(1)>>]

\* design or backgroundImage changes: the cleanup of the last effect runs,
\* return () => { isMounted = false; clearTimeout(timeoutId); }, then the
\* effect runs again for the new props
PropsChange ==
    LET Cleanup(e) ==
            [e EXCEPT !.isMounted = FALSE,
                      !.timer = IF @ = "pending" THEN "cleared" ELSE @]
    IN  /\ pv.props < 1 + MaxPropChanges
        /\ pv' = [pv EXCEPT !.props = @ + 1,
                            !.isLoading = TRUE,
                            !.effects = Append([@ EXCEPT ![Len(@)] = Cleanup(@)],
                                               Effect(pv.props + 1))]
    /\ UNCHANGED <<finderVars, renderVars, genVars, injectVars, downloadVars>>

\* the timer of effect k fires: generate() runs to its await of drawCustomQr
TimeoutFires ==
    /\ \E k \in 1..Len(pv.effects) :
          /\ pv.effects[k].timer = "pending"
          /\ pv' = [pv EXCEPT !.effects[k].timer = "fired", !.effects[k].render = "pending"]
    /\ UNCHANGED <<finderVars, renderVars, genVars, injectVars, downloadVars>>

\* the promise of drawCustomQr settles: if (isMounted) setQrCodeDataUrl(dataUrl)
\* when it resolved, the catch when it rejected, and finally
\* if (isMounted) setIsLoading(false)
DrawSettles ==
    /\ \E k \in 1..Len(pv.effects), outcome \in {"resolved", "rejected"} :
          /\ pv.effects[k].render = "pending"
          /\ pv' = [pv EXCEPT
                       !.effects[k].render = outcome,
                       !.qrCodeDataUrl = IF outcome = "resolved" /\ pv.effects[k].isMounted
                                         THEN pv.effects[k].props ELSE @,
                       !.isLoading = IF pv.effects[k].isMounted THEN FALSE ELSE @]
    /\ UNCHANGED <<finderVars, renderVars, genVars, injectVars, downloadVars>>

\* the then-callback of drawCustomQr throws: its promise stays pending, and
\* generate() never passes its await
DrawThrows ==
    /\ \E k \in 1..Len(pv.effects) :
          /\ pv.effects[k].render = "pending"
          /\ pv' = [pv EXCEPT !.effects[k].render = "threw"]
    /\ UNCHANGED <<finderVars, renderVars, genVars, injectVars, downloadVars>>

NextPreview ==
    \/ PropsChange
    \/ TimeoutFires
    \/ DrawSettles
    \/ DrawThrows

SpecPreview == InitPreview /\ [][NextPreview]_vars

\* ------------------------------------------------------------------------
\* SpecDownload: handleDownloadAll over the result set and the designs of the
\* render in which the button was pressed.  Names are sequences of
\* characters; the archive is the set of its entries <<file name, designId of
\* the artifact stored under it>>.
\* ------------------------------------------------------------------------

LowerCase ==
    <<"a", "b", "c", "d", "e", "f", "g", "h", "i", "j", "k", "l", "m",
      "n", "o", "p", "q", "r", "s", "t", "u", "v", "w", "x", "y", "z">>

UpperCase ==
    <<"A", "B", "C", "D", "E", "F", "G", "H", "I", "J", "K", "L", "M",
      "N", "O", "P", "Q", "R", "S", "T", "U", "V", "W", "X", "Y", "Z">>

Digits == <<"0", "1", "2", "3", "4", "5", "6", "7", "8", "9">>

\* design.name.replace(/[^a-z0-9]/gi, '_').toLowerCase(): a character of the
\* class [a-z0-9] under the flag i is kept, in lower case, and every other
\* character becomes an underscore
SanitizedName(name) ==
    LET Range(seq) == {seq[k] : k \in 1..Len(seq)}
        IsAlphanumeric(ch) ==
            ch \in Range(LowerCase) \cup Range(UpperCase) \cup Range(Digits)
        ToLowerCase(ch) ==
            IF ch \in Range(UpperCase)
            THEN LowerCase[CHOOSE k \in 1..Len(UpperCase) : UpperCase[k] = ch]
            ELSE ch
    IN  [k \in 1..Len(name) |->
            IF IsAlphanumeric(name[k]) THEN ToLowerCase(name[k]) ELSE "_"]

\* const design = designs.find(d => d.id === qr.designId): the first design of
\* that id, or undefined; designName is its sanitised name, or
\* `design_${i + 1}` (i + 1 below 10); the file is `${designName}.svg`
FileName(list, qr, i) ==
    LET hits == {k \in 1..Len(list) : list[k].id = qr.designId}
        FallbackName == <<"d", "e", "s", "i", "g", "n", "_", Digits[i + 2]>>
        designName ==
            IF hits # {}
            THEN SanitizedName(list[CHOOSE k \in hits : \A j \in hits : k <= j].name)
            ELSE FallbackName
    IN  Append(designName, ".svg")

\* the ascending lists of ids out of 1..MaxDesigns: ids are distinct, and
\* addDesign appends the largest
IdLists ==
    {ids \in UNION {[1..m -> 1..MaxDesigns] : m \in 0..MaxDesigns} :
        \A k \in 1..(Len(ids) - 1) : ids[k] < ids[k + 1]}

\* The button is pressed with any list of designs, named by the user, and
\* with the result set a run left: one artifact per design it rendered, in
\* order.
InitDownload ==
    LET DesignNames ==
            {<<"M", "y", " ", "Q", "R">>, <<"m", "y", "-", "q", "r">>,
             <<"d", "e", "s", "i", "g", "n", "_", "2">>}
        NamedDesignLists ==
            UNION {{[k \in 1..Len(ids) |-> [id |-> ids[k], name |-> names[k]]] :
                       names \in [1..Len(ids) -> DesignNames]} : ids \in IdLists}
        ResultSets ==
            {[k \in 1..Len(ids) |-> [designId |-> ids[k], svg |-> <<"svg", ids[k]>>]] :
                ids \in IdLists}
    IN  /\ FinderIdle
        /\ RenderIdle
        /\ GenIdle
        /\ InjectIdle
        /\ PreviewIdle
        /\ dl \in [pc : {"idle"}, designs : NamedDesignLists, generatedQrs : ResultSets,
                    i : {0}, zip : {{}}]

\* the loop test i < generatedQrs.length: the next artifact is fetched, or the
\* loop ends with zip.generateAsync(...) and setIsDownloading(false)
DownloadIterate(d, i) ==
    IF i < Len(d.generatedQrs)
    THEN [d EXCEPT !.pc = "fetch", !.i = i]
    ELSE [d EXCEPT !.pc = "done", !.i = i]

\* a click on Download All: handleDownloadAll, to its first await, or the
\* toast 'Nothing to download' and the return
HandleDownloadAll ==
    /\ dl.pc = "idle"
    /\ IF Len(dl.generatedQrs) = 0
       THEN /\ dl' = [dl EXCEPT !.pc = "nothing"]
            /\ toasts' = toasts \o <<Toast("nothing-to-download", 0)>>
       ELSE /\ dl' = DownloadIterate(dl, 0)
            /\ UNCHANGED toasts
    /\ UNCHANGED <<finderVars, renderVars, injectVars, previewVars, content, designs,
                   generatedQrs, isLoading, gen, edits, svgTemplates, requests>>

\* await fetch(qr.svg) settles: response.blob() is called, or the exception
\* leaves handleDownloadAll
DownloadFetched ==
    /\ dl.pc = "fetch"
    /\ \E outcome \in {"blob", "rejected"} : dl' = [dl EXCEPT !.pc = outcome]
    /\ UNCHANGED <<finderVars, renderVars, genVars, injectVars, previewVars>>

\* await response.blob() settles: the blob is filed under the name of the
\* design, or the exception leaves handleDownloadAll
DownloadBlobSettled ==
    /\ dl.pc = "blob"
    /\ \E outcome \in {"ok", "rejected"} :
          IF outcome = "ok"
          THEN LET qr == dl.generatedQrs[dl.i + 1]
                   name == FileName(dl.designs, qr, dl.i)
                   \* zip.file(name, blob): an entry of that name is replaced
                   filed == {e \in dl.zip : e[1] # name} \cup {<<name, qr.designId>>}
               IN  dl' = DownloadIterate([dl EXCEPT !.zip = filed], dl.i + 1)
          ELSE dl' = [dl EXCEPT !.pc = "rejected"]
    /\ UNCHANGED <<finderVars, renderVars, genVars, injectVars, previewVars>>

NextDownload ==
    \/ HandleDownloadAll
    \/ DownloadFetched
    \/ DownloadBlobSettled

SpecDownload == InitDownload /\ [][NextDownload]_vars

\* ------------------------------------------------------------------------
\* Claims about isFinderPattern (SpecFinder)
\* ------------------------------------------------------------------------

\* the 7x7 block of modules whose top-left module is (cx, cy)
Block(cx, cy) == (cx..(cx + 6)) \X (cy..(cy + 6))

ScanComplete ==
    /\ probe.moduleCount > 0 /\ probeResult # <<>>
    /\ probe.x = probe.moduleCount - 1 /\ probe.y = probe.moduleCount - 1

\* C1: for a matrix of side N >= 21 and a coordinate (x, y) of it,
\* isFinderPattern(x, y, N) is true if and only if (x < 7 and y < 7) or
\* (x >= N-7 and y < 7) or (x < 7 and y >= N-7); it is false for every
\* coordinate of the bottom-right 7x7 corner.
C1_FinderIff ==
    (probe.moduleCount >= 21 /\ probeResult # <<>>) =>
        LET x == probe.x
            y == probe.y
            N == probe.moduleCount
        IN  /\ probeResult[1] <=>
                   \/ <<x, y>> \in Block(0, 0)
                   \/ <<x, y>> \in Block(N - 7, 0)
                   \/ <<x, y>> \in Block(0, N - 7)
            /\ <<x, y>> \in Block(N - 7, N - 7) => probeResult[1] = FALSE

\* C1 witness: a coordinate of the bottom-right corner has been classified
C1_Witness ==
    /\ probe.moduleCount >= 21 /\ probeResult = <<FALSE>>
    /\ <<probe.x, probe.y>> \in Block(probe.moduleCount - 7, probe.moduleCount - 7)

\* C2: for a matrix of side N >= 21, isFinderPattern is true of exactly
\* 147 coordinates: those of the three 7x7 blocks at the corners where the
\* eyes are drawn, which are pairwise disjoint.
C2_FinderCount ==
    (ScanComplete /\ probe.moduleCount >= 21) =>
        LET e  == EyeCorners(probe.moduleCount)
            b1 == Block(e[1][1], e[1][2])
            b2 == Block(e[2][1], e[2][2])
            b3 == Block(e[3][1], e[3][2])
        IN  /\ Cardinality(eyeSet) = 147
            /\ eyeSet = b1 \cup b2 \cup b3
            /\ b1 \cap b2 = {} /\ b1 \cap b3 = {} /\ b2 \cap b3 = {}

\* C2 witness: a whole matrix has been scanned
C2_Witness == ScanComplete /\ probe.moduleCount >= 21 /\ eyeSet # {}


\* ------------------------------------------------------------------------
\* Claims about drawCustomQr (SpecRender)
\* ------------------------------------------------------------------------

\* the positions in the log of the operations named in names
OpIdx(names) == {i \in 1..Len(ops) : ops[i].op \in names}

BackgroundOpNames == {"clearRect", "fillRect", "imgSrc", "save", "clip", "drawImage", "restore"}

\* the cells of the modules drawModule was called for
DrawnCells == {<<ops[i].x + 1, ops[i].y + 1>> : i \in OpIdx({"drawModule"})}

\* the cells of the three eye blocks
EyeCells(n) ==
    LET e == EyeCorners(n)
    IN  {<<c[1] + 1, c[2] + 1>> :
            c \in Block(e[1][1], e[1][2]) \cup Block(e[2][1], e[2][2])
                  \cup Block(e[3][1], e[3][2])}

QuietCells == DOMAIN canvas \ RegionCells(qrData.size)

\* C3: within one drawCustomQr run the background paint finishes (the image
\* load or its failure included) before the first module is drawn; all modules
\* are drawn before the three eyes, drawn once each at (0,0), (N-7,0), (0,N-7);
\* applyCanvasShape runs after the last eye; the raster is exported only after
\* applyCanvasShape; nothing is drawn while the image load is pending.
C3_PipelineOrder ==
    (rpc \in {"imgPending", "bgDone", "resolved"}) =>
        LET bg     == OpIdx(BackgroundOpNames)
            mods   == OpIdx({"drawModule"})
            eyes   == OpIdx({"drawEye"})
            shape  == OpIdx({"applyCanvasShape"})
            export == OpIdx({"toDataURL"})
            n      == qrData.size
        IN  /\ \A i \in bg : \A j \in mods \cup eyes \cup shape \cup export : i < j
            /\ \A i \in mods : \A j \in eyes : i < j
            /\ \A i \in eyes : \A j \in shape : i < j
            /\ \A i \in shape : \A j \in export : i < j
            /\ \A i \in OpIdx({"imgSrc"}) :
                  /\ rpc = "imgPending" <=> i = Len(ops)
                  /\ i < Len(ops) => ops[i + 1].op \in {"save", "fillRect"}
            /\ rpc = "imgPending" => OpIdx({"imgSrc"}) # {}
            /\ rpc # "resolved" => mods \cup eyes \cup shape \cup export = {}
            /\ rpc = "resolved" =>
                  /\ Cardinality(eyes) = 3 /\ Cardinality(shape) = 1
                  /\ export = {Len(ops)}
                  /\ \E i \in eyes :
                        /\ eyes = {i, i + 1, i + 2}
                        /\ <<ops[i].x, ops[i].y>> = <<0, 0>>
                        /\ <<ops[i + 1].x, ops[i + 1].y>> = <<n - 7, 0>>
                        /\ <<ops[i + 2].x, ops[i + 2].y>> = <<0, n - 7>>

\* C3 witness: a run whose background image loaded has resolved with modules drawn
C3_Witness ==
    /\ rpc = "resolved"
    /\ OpIdx({"drawImage"}) # {}
    /\ OpIdx({"drawModule"}) # {}

\* C4: for a design with transparentBg = true and useImage = false, every
\* cell of the raster that is neither the cell of a drawn dark data module nor
\* in one of the three eye blocks has alpha zero, whatever the padding, the
\* styles, the canvas shape and the background gradient.
C4_TransparentElsewhere ==
    (rpc = "resolved" /\ design.transparentBg /\ ~design.useImage) =>
        LET painted == DrawnCells \cup EyeCells(qrData.size)
        IN  \A c \in DOMAIN canvas \ painted : canvas[c] = {ClearPx}

\* C4 witness: such a design, with a background gradient and padding, is
\* rendered: modules are painted and the quiet zone exists
C4_Witness ==
    /\ rpc = "resolved" /\ design.transparentBg /\ ~design.useImage
    /\ design.bgGradientStart # "" /\ design.padding > 0
    /\ design.pixelStyle = "diamond" /\ design.eyeShape = "flower"
    /\ \E c \in DrawnCells : Solid(design.pixelColor) \in canvas[c]
    /\ QuietCells # {}

\* C5 (as claimed): when transparentBg and useImage are both true and an
\* image is supplied and loads, the image is painted; when transparentBg is
\* true and no image is being used (none supplied, or useImage false) the
\* canvas is cleared to full transparency.
C5_BackgroundPriority ==
    (rpc = "bgDone" /\ design.transparentBg) =>
        /\ (design.useImage /\ TruthyStr(bgImage) /\ OpIdx({"drawImage"}) # {}) =>
              \A c \in RegionCells(qrData.size) :
                  ImagePaint(bgImage, ImageFilterOf(design)) \in canvas[c]
        /\ (~design.useImage \/ ~TruthyStr(bgImage)) =>
              \A c \in DOMAIN canvas : canvas[c] = {ClearPx}

\* C6: when drawBackground completes, every cell of the quiet zone holds the
\* backgroundColor, whether the padded region was filled with the solid
\* colour, the gradient, the image or the fallback of a failed load; only when
\* the canvas was cleared to full transparency is it transparent.
C6_QuietZone ==
    (rpc = "bgDone") =>
        LET cleared == Len(ops) = 3 /\ ops[3].op = "clearRect"
        IN  \A c \in QuietCells :
                canvas[c] = IF cleared THEN {ClearPx} ELSE {Solid(design.backgroundColor)}

\* C6 witness: the gradient case with a quiet zone
C6_Witness ==
    /\ rpc = "bgDone" /\ design.padding > 0
    /\ \E c \in RegionCells(qrData.size) :
          canvas[c] = {Gradient(design.bgGradientStart, design.bgGradientEnd)}
    /\ \E c \in QuietCells : canvas[c] = {Solid(design.backgroundColor)}

\* the paint of the data modules that is visible on the raster, at its own
\* alpha or at the alpha the canvas-shape mask left it
ModulesPaintedWith(p) ==
    LET drawn == DrawnCells
    IN  /\ pixelFillStyle = p
        /\ \A c \in drawn : canvas[c] # {ClearPx} => canvas[c] \cap {p, Fade(p)} # {}
        /\ \E c \in drawn : canvas[c] \cap {p, Fade(p)} # {}

BothPixelGradientEnds ==
    /\ design.pixelGradientStart \notin {"", Undefined}
    /\ design.pixelGradientEnd \notin {"", Undefined}

\* C7: for a design with useImage = false, data modules are painted with the
\* pixel gradient if both ends are non-empty, and with the solid pixelColor if
\* either is empty or absent.
C7_GradientOrSolid ==
    (rpc = "resolved" /\ ~design.useImage) =>
        IF BothPixelGradientEnds
        THEN ModulesPaintedWith(Gradient(design.pixelGradientStart, design.pixelGradientEnd))
        ELSE ModulesPaintedWith(Solid(design.pixelColor))

\* C7 witness: one end set, the other absent, and the modules are solid
C7_Witness ==
    /\ rpc = "resolved" /\ ~design.useImage
    /\ design.pixelGradientStart = "#111111" /\ design.pixelGradientEnd = Undefined
    /\ ModulesPaintedWith(Solid(design.pixelColor))

\* C8 (as claimed): with both gradient ends set, modules are painted with the
\* solid pixelColor exactly when a background image was drawn behind them,
\* and with the gradient whenever no background image is in use.
C8_SolidIffImageDrawn ==
    (rpc = "resolved" /\ BothPixelGradientEnds) =>
        IF OpIdx({"drawImage"}) # {}
        THEN ModulesPaintedWith(Solid(design.pixelColor))
        ELSE ModulesPaintedWith(Gradient(design.pixelGradientStart, design.pixelGradientEnd))

\* C8 (amended): with both gradient ends set, modules are painted with the
\* solid pixelColor exactly when design.useImage is true, whether or not an
\* image was supplied or loaded, and with the gradient when it is false.
C8_SolidIffUseImage ==
    (rpc = "resolved" /\ BothPixelGradientEnds) =>
        IF design.useImage
        THEN ModulesPaintedWith(Solid(design.pixelColor))
        ELSE ModulesPaintedWith(Gradient(design.pixelGradientStart, design.pixelGradientEnd))

\* C8 witness: useImage is set, no image was supplied, and the modules are solid
C8_Witness ==
    /\ rpc = "resolved" /\ BothPixelGradientEnds
    /\ design.useImage /\ bgImage = Null
    /\ OpIdx({"drawImage"}) = {}
    /\ ModulesPaintedWith(Solid(design.pixelColor))

\* the load of the background image was requested and failed
ImageLoadFailed ==
    \E i \in OpIdx({"imgSrc"}) : i < Len(ops) /\ ops[i + 1].op = "fillRect"

\* C11: when the background image fails to load, drawBackground fills the
\* padded region with the solid backgroundColor (also for a design that has a
\* background gradient) and the pipeline continues: the then-callback can run,
\* modules and the three eyes are drawn, and drawCustomQr resolves with a
\* raster instead of rejecting, so that handleGenerate goes on to the template
\* of the design.  The promise of drawBackground is resolved, and what waits
\* for it can run, exactly in the states "bgDone".
C11_ImageFailureFallback ==
    ImageLoadFailed =>
        /\ rpc \in {"bgDone", "resolved"}
        /\ rpc = "bgDone" =>
              \A c \in RegionCells(qrData.size) :
                  canvas[c] = {Solid(design.backgroundColor)}
        /\ rpc = "resolved" =>
              /\ OpIdx({"drawModule"}) # {}
              /\ Cardinality(OpIdx({"drawEye"})) = 3
              /\ dataUrl = "data:image/png"
              /\ design.canvasShape = "square" =>
                    \A c \in RegionCells(qrData.size) \ (DrawnCells \cup EyeCells(qrData.size)) :
                        canvas[c] = {Solid(design.backgroundColor)}

\* C11 witness: the image of a design with a background gradient failed to
\* load and the run resolved
C11_Witness ==
    /\ ImageLoadFailed /\ rpc = "resolved"
    /\ design.bgGradientStart # "" /\ dataUrl = "data:image/png"

\* how the disc inscribed in the canvas covers cell c
InscribedDisc(c) ==
    LET n   == qrData.size
        pad == PaddingOf(design)
        r   == Canvas2(n, size) \div 2
    IN  DiscCover(r, r, r, CellLo(n, size, pad, c[1]), CellHi(n, size, pad, c[1]),
                  CellLo(n, size, pad, c[2]), CellHi(n, size, pad, c[2]))

\* C16 (as claimed): applyCanvasShape with canvasShape = circle clears every
\* cell outside the disc inscribed in the canvas and leaves every cell inside
\* it as it was (colour and alpha), for every design, also one whose pixel
\* paint is a gradient or a translucent colour; with canvasShape = square it
\* changes nothing.
C16_CircleMask ==
    [][(rpc = "bgDone" /\ rpc' = "resolved") =>
          LET pre == DrawModulesAndEyes(canvas, design, qrData)
          IN  \A c \in DOMAIN pre :
                 IF design.canvasShape = "circle"
                 THEN /\ InscribedDisc(c) = "none" => canvas'[c] = {ClearPx}
                      /\ InscribedDisc(c) = "full" => canvas'[c] = pre[c]
                 ELSE canvas'[c] = pre[c]]_vars


\* ------------------------------------------------------------------------
\* Claims about handleGenerate (SpecGen)
\* ------------------------------------------------------------------------

\* the ids of a list of designs or of artifacts, in order
IdsOf(list) == [k \in 1..Len(list) |-> list[k].id]

DesignIdsOf(results) == [k \in 1..Len(results) |-> results[k].designId]

\* C9 (as claimed): in a batch in which exactly one template fetch fails and
\* nothing else does, the design of that fetch is omitted from the result set,
\* a diagnostic is recorded (a toast naming the design, or one reporting the
\* error), and the result set holds exactly the artifacts of the other designs.
C9_OneFetchFailure ==
    (/\ gen.pc = "done"
     /\ Len(gen.failures) = 1
     /\ gen.failures[1].at \in {"fetch-not-ok", "fetch-rejected"}) =>
        LET bad == gen.failures[1].design
            NotBad(id) == id # bad
        IN  /\ DesignIdsOf(generatedQrs) = SelectSeq(IdsOf(gen.designs), NotBad)
            /\ \E t \in 1..Len(toasts) :
                  \/ toasts[t] = Toast("template-error", bad)
                  \/ toasts[t] = Toast("unexpected-error", 0)

\* C10 (as claimed): a failure while one design is processed is recovered at
\* that design: the artifacts of the designs processed before it are published
\* and the designs after it are still processed, so that every design that
\* did not fail has its artifact in the result set.
C10_RecoveredPerDesign ==
    (/\ gen.pc = "done"
     /\ \A f \in 1..Len(gen.failures) : gen.failures[f].design # 0) =>
        LET failed == {gen.failures[f].design : f \in 1..Len(gen.failures)}
            Kept(id) == id \notin failed
        IN  DesignIdsOf(generatedQrs) = SelectSeq(IdsOf(gen.designs), Kept)

\* the designs of a list that are not among the failures of the run
Produced(list, failures) ==
    LET failed == {failures[f].design : f \in 1..Len(failures)}
        Kept(d) == d.id \notin failed
    IN  SelectSeq(list, Kept)

\* C12: the result list handleGenerate publishes is in the order of the
\* designs list as it was when the run started: it is that list restricted to
\* the designs that produced an artifact, each at most once, and each entry is
\* the artifact of its own design.
C12_ResultsInDesignOrder ==
    LET shownIds == {generatedQrs[k].designId : k \in 1..Len(generatedQrs)}
        Shown(d) == d.id \in shownIds
        kept     == SelectSeq(gen.designs, Shown)
    IN  /\ Len(generatedQrs) = Len(kept)
        /\ \A k \in 1..Len(kept) : generatedQrs[k] = Artifact(kept[k])
        /\ (/\ gen.pc = "done"
            /\ \A f \in 1..Len(gen.failures) : gen.failures[f].at = "fetch-not-ok") =>
               Len(generatedQrs) = Len(Produced(gen.designs, gen.failures))

\* C12 witness: a run skipped the first of its two designs and published the
\* second, and the designs list has been edited since the run started
C12_Witness ==
    /\ gen.pc = "done" /\ Len(gen.designs) = 2
    /\ gen.failures = <<[design |-> 1, at |-> "fetch-not-ok"]>>
    /\ DesignIdsOf(generatedQrs) = <<2>>
    /\ designs # gen.designs

\* C13: handleGenerate called with empty content is refused before anything
\* is attempted and changes no state: the result set of the previous run, the
\* loading flag, the designs and the content are as they were, and no encoding,
\* rendering or fetch is started (the run records nothing but the refusal).
C13_EmptyContentRefused ==
    [][(content = "" /\ gen'.run # gen.run) =>
          /\ generatedQrs' = generatedQrs
          /\ isLoading' = isLoading
          /\ designs' = designs
          /\ content' = content
          /\ gen' = [gen EXCEPT !.pc = "refused", !.run = @ + 1]]_vars

\* C13 witness: a request with empty content was refused while the result
\* set of an earlier run is on display
C13_Witness ==
    /\ gen.pc = "refused" /\ gen.run = 2 /\ content = ""
    /\ Len(generatedQrs) > 0 /\ ~isLoading

\* C14 (as claimed): a run ends with a batch-level failure report if and only
\* if it produced no artifact; a run that produced at least one ends with the
\* success report and publishes exactly the artifacts it produced.
C14_FailureIffNoArtifact ==
    (gen.pc = "done") =>
        LET OfRun(t) == t.kind \in {"content-empty", "template-error", "success",
                                       "generation-failed", "unexpected-error"}
            shown    == SelectSeq(toasts, OfRun)
            last     == shown[Len(shown)]
        IN  /\ last.kind \in {"generation-failed", "unexpected-error"}
                  <=> Len(gen.qrResults) = 0
            /\ Len(gen.qrResults) > 0 =>
                  /\ last = Toast("success", 0)
                  /\ generatedQrs = gen.qrResults

\* C15: a generation request issued while an earlier one is in flight never
\* lets the earlier run write the result set, and the result set shown is the
\* output of the most recent request only.  The Generate button, the only
\* caller of handleGenerate, is disabled from the start of a run to its end
\* (disabled={isLoading}), so a request is issued only when no run is in
\* flight and no earlier run is left to write; while a run is in flight the
\* result set is empty, and every write of the result set clears it or stores
\* the results of the run of the most recent request.
C15_MostRecentRequestOnly ==
    [][/\ gen'.run # gen.run => (gen.pc \notin InFlightPcs /\ ~isLoading)
       /\ gen'.pc \in InFlightPcs => (isLoading' /\ generatedQrs' = <<>>)
       /\ generatedQrs' # generatedQrs => generatedQrs' \in {<<>>, gen'.qrResults}
       /\ gen'.pc = "done" => generatedQrs' \in {<<>>, gen'.qrResults}]_vars

\* C15 witness: a second request, issued as soon as the button allowed it,
\* after the first run had published its artifacts, has ended, and the result
\* set shown is the output of the second run
C15_Witness ==
    /\ gen.run = 2 /\ gen.pc = "done" /\ ~isLoading
    /\ Len(generatedQrs) > 0 /\ generatedQrs = gen.qrResults
    /\ \E t \in 1..(Len(toasts) - 1) : toasts[t] = Toast("success", 0)

\* C20: a run works on the designs list as it was when the run started:
\* the steps of handleGenerate never change the designs list or a design, the
\* edits of the designs never change the list the run iterates over, and the
\* designs handed to drawCustomQr, one after the other, are those of that
\* list with the field values they had when the run started.
C20_ReadOnlySnapshot ==
    [][/\ gen' # gen => designs' = designs
       /\ (gen'.run # gen.run /\ gen'.pc # "refused") => gen'.designs = designs
       /\ gen'.run = gen.run => gen'.designs = gen.designs
       /\ Len(gen'.drawn) <= Len(gen'.designs)
       /\ \A k \in 1..Len(gen'.drawn) : gen'.drawn[k] = gen'.designs[k]
       /\ \A k \in 1..Len(gen'.qrResults) :
             \E j \in 1..Len(gen'.designs) : gen'.qrResults[k] = Artifact(gen'.designs[j])]_vars

\* C20 witness: the design a run is rendering is no longer in the designs
\* list as it was (removed or updated since the run started)
C20_Witness ==
    /\ gen.pc \in InFlightPcs /\ gen.i >= 2
    /\ \A k \in 1..Len(designs) : designs[k] # gen.drawn[gen.i]
    /\ gen.drawn[gen.i] = gen.designs[gen.i]


\* ------------------------------------------------------------------------
\* Claims about the injection into the template (SpecInject)
\* ------------------------------------------------------------------------

\* the first image element of es that holds a reference, 0 if none
FirstImageRef(es) ==
    FirstOf({k \in 1..Len(es) : es[k].kind = "image" /\ es[k].attr # "none"})

\* the elements with the raster injected as the claims describe it
WithRaster(es, url) ==
    IF FirstImageRef(es) = 0 THEN es
    ELSE [es EXCEPT ![FirstImageRef(es)].value = <<url>>]

IsPlaceholder(e) ==
    e.kind = "text" /\ e.content \in {<<"TEXT">>, <<" ", "TEXT", " ">>}

FirstPlaceholder(es) == FirstOf({k \in 1..Len(es) : IsPlaceholder(es[k])})

\* C17: the injection replaces the value of the href or xlink:href attribute
\* of the first image element that has one with exactly the data URI of the
\* raster, whichever of the two names and whichever quote the template uses;
\* the name, the quotes, every other image element and everything else in the
\* template are as they were.
C17_ImageHrefInjected ==
    (inj.pc = "pushed" /\ FirstImageRef(inj.elems) # 0) =>
        inj.svgText1 = TemplateText(WithRaster(inj.elems, inj.qrCodeDataUrl))

\* C17 witness: the reference is an xlink:href in single quotes, and a second
\* image element with a double-quoted href follows it
C17_Witness ==
    /\ inj.pc = "pushed" /\ Len(inj.elems) = 2
    /\ inj.elems[1].kind = "image" /\ inj.elems[1].attr = "xlink:href="
    /\ inj.elems[1].quote = SQ
    /\ inj.elems[2].kind = "image" /\ inj.elems[2].attr = "href="
    /\ inj.elems[2].quote = DQ
    /\ inj.svgText1 # inj.svgText0
    /\ inj.svgText1 = TemplateText([inj.elems EXCEPT ![1].value = <<inj.qrCodeDataUrl>>])

\* C18 (as claimed): when design.text is set, the content of the first text
\* placeholder only is replaced by design.text, and when foregroundColor is
\* set too the fill attribute of that same element only is rewritten; every
\* other text element keeps its content and its fill.  When design.text is not
\* set no text element is changed.  (Stated for a text free of the $n patterns
\* of a replacement string.)
C18_FirstPlaceholderOnly ==
    (inj.pc = "pushed" /\ inj.text \notin {"$1", "$2"}) =>
        LET es1 == WithRaster(inj.elems, inj.qrCodeDataUrl)
            k   == FirstPlaceholder(es1)
            es2 == IF ~TruthyStr(inj.text) \/ k = 0 THEN es1
                   ELSE [es1 EXCEPT
                           ![k].content = <<inj.text>>,
                           ![k].value = IF /\ TruthyStr(inj.foregroundColor)
                                           /\ es1[k].attr = "fill=" /\ es1[k].quote = DQ
                                        THEN <<inj.foregroundColor>> ELSE @]
        IN  inj.svgText3 = TemplateText(es2)

\* C19 (as claimed): when no image element of the template holds a reference
\* the image substitution leaves the text as it was, when no text element is a
\* placeholder the text substitution (the content and the fill of the
\* placeholder) leaves the text as it was, and in both cases the artifact is
\* built from the text and pushed.
C19_NoMatchNoChange ==
    (inj.pc = "pushed") =>
        /\ FirstImageRef(inj.elems) = 0 => inj.svgText1 = inj.svgText0
        /\ FirstPlaceholder(inj.elems) = 0 => inj.svgText3 = inj.svgText1
        /\ inj.svg = <<"data:image/svg+xml;base64,">> \o inj.svgText3


\* ------------------------------------------------------------------------
\* Claims about the list of designs and the result set (SpecGen)
\* ------------------------------------------------------------------------

\* the ids of a list of designs, in its order
Ids(list) == [k \in 1..Len(list) |-> list[k].id]

PairwiseDistinct(seq) ==
    \A j, k \in 1..Len(seq) : j # k => seq[j] # seq[k]

\* C21: from a list of designs with pairwise distinct ids, every addDesign,
\* updateDesign and removeDesign leads to a list with pairwise distinct ids,
\* and updateDesign changes neither the id of a design nor the number or the
\* order of the designs.
C21_IdsUniqueAndStable ==
    [][PairwiseDistinct(Ids(designs)) =>
          /\ PairwiseDistinct(Ids(designs'))
          /\ UpdateDesign => Ids(designs') = Ids(designs)]_vars

\* C21 witness: the first design was removed and a design was added, which
\* took the id after the largest one left
C21_Witness ==
    /\ edits = 2 /\ Len(designs) = 2
    /\ Ids(designs) = <<2, 3>>
    /\ PairwiseDistinct(Ids(designs))

\* ------------------------------------------------------------------------
\* Claims about the module renderer and the eye renderer (SpecRender)
\* ------------------------------------------------------------------------

\* the positions in shapes of the shapes of the kinds named
ShapeIdx(kinds) == {k \in 1..Len(shapes) : shapes[k].kind \in kinds}

\* the coordinates of the three eye blocks of a matrix of side n
EyeBlocks(n) == Block(0, 0) \cup Block(n - 7, 0) \cup Block(0, n - 7)

\* box lies within the rectangle of the columns c0..c1 and the rows r0..r1 of
\* the cells of the canvas, and is not empty
WithinCells(box, c0, c1, r0, r1) ==
    LET n   == qrData.size
        pad == PaddingOf(design)
    IN  /\ 10 * CellLo(n, size, pad, c0) <= box[1] /\ box[1] < box[2]
        /\ box[2] <= 10 * CellHi(n, size, pad, c1)
        /\ 10 * CellLo(n, size, pad, r0) <= box[3] /\ box[3] < box[4]
        /\ box[4] <= 10 * CellHi(n, size, pad, r1)

\* C22: the module renderer draws exactly one shape for each coordinate whose
\* module is dark and that is outside the three eye blocks, draws nothing
\* for a light module or a coordinate inside an eye block, and each shape lies
\* within its own cell of side regionSize / N, offset by the padding.
C22_ModuleRenderer ==
    (rpc = "resolved") =>
        LET n    == qrData.size
            mods == ShapeIdx({"module"})
        IN  /\ \A j, k \in mods :
                  j # k => <<shapes[j].x, shapes[j].y>> # <<shapes[k].x, shapes[k].y>>
            /\ {<<shapes[k].x, shapes[k].y>> : k \in mods}
                  = {c \in (0..(n - 1)) \X (0..(n - 1)) :
                        ModuleAt(n, qrData.pattern, c[1], c[2]) /\ c \notin EyeBlocks(n)}
            /\ \A k \in mods :
                  WithinCells(shapes[k].box, shapes[k].x + 1, shapes[k].x + 1,
                              shapes[k].y + 1, shapes[k].y + 1)

\* C22 witness: a matrix rendered with padding and circles; a dark module next
\* to an eye block is drawn, and light modules and eye coordinates are not
C22_Witness ==
    /\ rpc = "resolved" /\ design.padding > 0 /\ design.pixelStyle = "circle"
    /\ \E k \in ShapeIdx({"module"}) : shapes[k].x = 8 /\ shapes[k].y = 0
    /\ \A k \in ShapeIdx({"module"}) : <<shapes[k].x, shapes[k].y>> \notin {<<0, 0>>, <<9, 0>>}
    /\ Cardinality(ShapeIdx({"module"})) < qrData.size * qrData.size - 3 * 49

\* the centred square of side floor(N x logoSizeFraction) the claim excludes,
\* empty when the design has no logo
LogoExclusionZone(n, d) ==
    IF TruthyStr(d.logo)
    THEN LET side == (n * d.logoSize) \div 100
             lo   == (n - side) \div 2
         IN  (lo..(lo + side - 1)) \X (lo..(lo + side - 1))
    ELSE {}

\* C23 (as claimed): when a centred square logo exclusion zone is configured,
\* the module renderer draws no module whose coordinate falls inside the
\* centred square of side floor(N x logoSizeFraction), and draws every other
\* dark module outside the eye blocks.
C23_LogoExclusion ==
    (rpc = "resolved" /\ TruthyStr(design.logo)) =>
        LET n == qrData.size
        IN  {<<shapes[k].x, shapes[k].y>> : k \in ShapeIdx({"module"})}
              = {c \in (0..(n - 1)) \X (0..(n - 1)) :
                    /\ ModuleAt(n, qrData.pattern, c[1], c[2])
                    /\ c \notin EyeBlocks(n)
                    /\ c \notin LogoExclusionZone(n, design)}

\* C24: drawEye paints its three layers in the order frame, pupil-socket
\* carve, pupil, and changes no pixel outside the eye's own block of 7x7
\* modules, for every eyeShape, eyeStyle and eyeRadius; after drawEye returns
\* the transform and the clip of the context are what they were before.
C24_EyeLayers ==
    (rpc = "resolved") =>
        LET e     == EyeCorners(qrData.size)
            first == Cardinality(ShapeIdx({"module"}))
        IN  /\ Len(shapes) = first + 9
            /\ \A k \in 1..3 :
                  LET at == first + 3 * (k - 1)
                  IN  /\ <<shapes[at + 1].kind, shapes[at + 2].kind, shapes[at + 3].kind>>
                            = <<"frame", "socket", "pupil">>
                      /\ \A l \in 1..3 :
                            /\ <<shapes[at + l].x, shapes[at + l].y>> = e[k]
                            /\ WithinCells(shapes[at + l].box,
                                           e[k][1] + 1, e[k][1] + EyeModules,
                                           e[k][2] + 1, e[k][2] + EyeModules)
            /\ ctx.transform = <<0, 0>> /\ ctx.clip = <<>> /\ ctx.stack = <<>>

\* C24 witness: the eyes of a design with padding, the largest eye radius,
\* the shield and the round pupil have been drawn
C24_Witness ==
    /\ rpc = "resolved" /\ design.padding > 0 /\ design.eyeRadius = 30
    /\ design.eyeShape = "shield" /\ design.eyeStyle = "circle"
    /\ Cardinality(ShapeIdx({"frame", "socket", "pupil"})) = 9
    /\ \E k \in ShapeIdx({"socket"}) :
          /\ shapes[k].x = qrData.size - EyeModules
          /\ shapes[k].box[1] > 10 * CellLo(qrData.size, size, PaddingOf(design),
                                             qrData.size - EyeModules + 1)

\* C25 (as claimed): the eye frame and the eye pupil are always filled with
\* the solid pixelColor, also when both pixel-gradient ends are set and the
\* modules are painted with the gradient; the pupil socket is filled with
\* backgroundColor, or cleared to transparent exactly when transparentBg is
\* true and no image background is in play (none is supplied, or useImage is
\* false).
C25_EyeColours ==
    (rpc = "resolved") =>
        /\ \A k \in ShapeIdx({"frame", "pupil"}) : shapes[k].paint = Solid(design.pixelColor)
        /\ \A k \in ShapeIdx({"socket"}) :
              shapes[k].paint =
                  IF design.transparentBg /\ ~(design.useImage /\ TruthyStr(bgImage))
                  THEN ClearPx
                  ELSE Solid(design.backgroundColor)

\* ------------------------------------------------------------------------
\* Claims about the image background (SpecRender)
\* ------------------------------------------------------------------------

\* the overlays a cell shows when an overlay of the given colour is drawn over
\* the image at the given opacity (in percent): none at opacity 0
OverlaidImage(color, opacity) ==
    IF opacity = 0 THEN {} ELSE {Overlay(color, opacity)}

\* C26 (as claimed): when an image background is drawn and imageOverlayColor
\* is set, the overlay over the padded region is drawn at opacity exactly
\* imageOverlayOpacity, for every opacity from 0 to 1, 0 included; after the
\* background step the global alpha and the filter of the context are back to
\* their defaults, so that modules and eyes are drawn opaque and unfiltered.
C26_OverlayOpacity ==
    /\ (rpc = "bgDone" /\ OpIdx({"drawImage"}) # {} /\ TruthyStr(design.imageOverlayColor)) =>
          \A c \in RegionCells(qrData.size) :
              /\ {p \in canvas[c] : p[1] = "overlay"}
                    = OverlaidImage(design.imageOverlayColor, design.imageOverlayOpacity)
              /\ design.imageOverlayOpacity = 0 =>
                    ImagePaint(bgImage, ImageFilterOf(design)) \in canvas[c]
    /\ (rpc \in {"bgDone", "resolved"}) =>
          ctx.globalAlpha = 100 /\ ctx.filter = NoFilter

\* ------------------------------------------------------------------------
\* Claims about the result set and the designs it refers to (SpecGen)
\* ------------------------------------------------------------------------

\* designs.find(d => d.id === qr.designId) finds the design d
Finds(qr, d) ==
    \E j \in 1..Len(designs) :
        /\ designs[j] = d /\ d.id = qr.designId
        /\ \A i \in 1..(j - 1) : designs[i].id # qr.designId

\* d is the design the run rendered under the id given, possibly with its
\* template or its image switch edited since (a name is never edited here)
RenderedAs(d, id) ==
    \E k \in 1..Len(gen.drawn) : gen.drawn[k].id = id /\ gen.drawn[k].name = d.name

\* C27 (as claimed): after any sequence of removeDesign and addDesign that
\* follows a generation run, looking up the designId of a result in the list
\* of designs finds the design that was rendered or finds nothing, never
\* another design.
C27_ResultBoundToDesign ==
    \A k \in 1..Len(generatedQrs) :
        \A j \in 1..Len(designs) :
            Finds(generatedQrs[k], designs[j]) =>
                RenderedAs(designs[j], generatedQrs[k].designId)

\* C29 (as claimed): every handleGenerate run started with non-empty content
\* ends with the loading flag false, on the success path, the zero-artifact
\* path and every error path, each fetch and each image load settling; in
\* particular the promise of drawCustomQr always settles, also when a drawing
\* step throws after the background is painted: while the loading flag is
\* true the run is at an await whose promise will settle.
C29_RunEnds ==
    isLoading => gen.pc \in InFlightPcs

\* ------------------------------------------------------------------------
\* Claims about DesignPreview (SpecPreview)
\* ------------------------------------------------------------------------

\* something is still to come that ends the loading: the timer or the render
\* of an effect that is mounted
LoadingWillEnd ==
    \E k \in 1..Len(pv.effects) :
        /\ pv.effects[k].isMounted
        /\ pv.effects[k].timer = "pending" \/ pv.effects[k].render = "pending"

\* C28 (as claimed): when the props change, a debounced render that has not
\* started is cancelled and never runs, and the result of a render started
\* for the old props is never stored: the image stored comes from a render
\* that completed, and once the render for the current props has completed it
\* is the image of the current props; and once changes stop the loading flag
\* becomes false: while it is true, a timer or a render that will end the
\* loading is pending.
C28_PreviewCurrent ==
    LET last == Len(pv.effects)
    IN  /\ \A k \in 1..last :
              pv.effects[k].timer = "cleared" => pv.effects[k].render = "none"
        /\ pv.qrCodeDataUrl # 0 => pv.effects[pv.qrCodeDataUrl].render = "resolved"
        /\ pv.effects[last].render = "resolved" => pv.qrCodeDataUrl = pv.props
        /\ pv.isLoading => LoadingWillEnd

\* ------------------------------------------------------------------------
\* Claims about handleDownloadAll (SpecDownload)
\* ------------------------------------------------------------------------

\* C30 (as claimed): handleDownloadAll puts one file into the archive per
\* generated artifact: the number of distinct file names written equals the
\* number of entries of the result set, also when two designs have the same
\* name or names that become equal once sanitised, and when the design of a
\* result has been removed.
C30_OneFilePerArtifact ==
    (dl.pc = "done") =>
        Cardinality({e[1] : e \in dl.zip}) = Len(dl.generatedQrs)

====
